---- MODULE Spec2Model ----
(***************************************************************************)
(* Chain synchronisation engine of the lottery indexer (BlockchainService).*)
(* One chain (two in SpecChains), one contract and one token are modelled;  *)
(* the token and the contract address are left out of every row.           *)
(*                                                                         *)
(* Spec        an EVM chain: live subscription + chunked backfill          *)
(*             (listenToEthereumEvents, fetchHistoricalEvents)             *)
(* SpecConn    the connection supervisor of one chain: health timer,       *)
(*             probe, reconnect cycle, force-reconnect                     *)
(* SpecStop    the supervisor with the shutdown call (cleanup)             *)
(* SpecStats   the applier on a contract history with several users and    *)
(*             rounds (streaks, wins)                                      *)
(* SpecSolana  the non-EVM backfill (fetchSolanaTransactions)              *)
(* SpecRace    the purchase handler statement by statement, for callers    *)
(*             running at the same time                                    *)
(* SpecChains  startListening over two registered chains                   *)
(* SpecRaffle  the Raffle contract: rounds, tickets, upkeep, VRF callback    *)
(* SpecInstr   non-EVM transactions of several instructions, and            *)
(*             fetchSolanaTransactions calls running at the same time       *)
(* SpecTicks   the callbacks of the health-check interval timer side by     *)
(*             side                                                         *)
(***************************************************************************)
EXTENDS Integers, Sequences, FiniteSets, Bags, TLC

\* ------------------------------------------------------------------ bounds
\* highest block the modelled chain reaches
MaxHeight == 4
\* number of rounds the contract opens
MaxRounds == 2
\* persistence errors (other than duplicate key) injected in one behaviour
MaxFailures == 1
\* rounds the contract of SpecStats opens
MaxStatsRounds == 3
\* highest block the chain of SpecStats reaches
MaxStatsHeight == 3
\* transactions the non-EVM program takes
MaxTxs == 4
\* the limit of getSignaturesForAddress, scaled down from 1000 so that a
\* backfill of MaxTxs transactions needs several pages
SolanaPageLimit == 2
\* callers of the purchase handler that can be in flight in SpecRace
MaxCallers == 3
\* blocks a chain of SpecChains produces
MaxFleetHeight == 3
\* SpecRaffle: the latest block.timestamp, the rounds of the token, the
\* tickets bought in a round, the tickets of one purchase,
\* the VRF requests made and the largest random word
MaxRaffleTime == 6
MaxRaffleRounds == 2
MaxTickets == 2
MaxCount == 2
MaxRequests == 2
MaxRandom == 2
\* SpecInstr: transactions of the ledger, instructions of a transaction, rounds
\* opened, purchase transactions of a round, tickets of a purchase,
\* fetchSolanaTransactions calls in flight
MaxIxTxs == 4
MaxInstr == 2
MaxIxRounds == 1
MaxIxPurchases == 1
MaxIxCount == 2
MaxRuns == 2
\* SpecTicks: callbacks of the interval timer in flight, blocks the chain
\* produces
MaxTicks == 2
MaxTickHeight == 3
\* BlockchainService.maxBlockRange, scaled down from 10000 so that a range of
\* MaxHeight blocks needs several chunks
maxBlockRange == 2
\* blockchain-config.json syncThresholdBlocks passed to setSyncThreshold,
\* scaled down from the default 5
syncThresholdBlocks == 1

\* SpecConn: blocks the supervised chain produces
MaxSlot == 3
\* SpecConn: reconnectBlockchain calls that can be in flight at once
MaxProcs == 2
\* SpecConn: force-reconnect requests the operator makes
MaxForces == 1
\* SpecConn: listener sets left on adapters the service no longer references
MaxOrphans == 1

\* ------------------------------------------------------- program constants
\* retryWithBackoff(operation, maxRetries = 3, baseDelay = 1000)
maxRetries == 3
baseDelay == 1000
\* BlockchainService.maxReconnectAttempts, reconnectDelay (ms)
maxReconnectAttempts == 5
reconnectDelay == 5000
\* checkSolanaConnectionHealth: solanaThreshold = syncThresholdBlocks * 10
solanaThresholdFactor == 10
\* Raffle.sol: the round length of getTemporaryCloseTime (900 s) and
\* VRF_RETRY_DELAY (24 hours), scaled down; the price of a ticket in the
\* token's units and i_entranceFee (percent)
RoundSeconds == 3
VrfRetryDelay == 2
TicketPrice == 100
EntranceFee == 10

Users == {"u1", "u2"}
\* the purchases the model lets users make: <<buyer, count>>
Purchases == {<<"u1", 2>>}
NoRecord == -1

VARIABLES
  chain,      \* the chain: chain[b] is the sequence of contract logs of block b
  db,         \* the relational store, one field per repository
  started,    \* startListening has been called
  listeners,  \* contract.on subscriptions are attached
  timerOn,    \* the health-check interval timer is running
  liveQueue,  \* logs emitted to the subscription callbacks, not yet handled
  bf,         \* the running fetchHistoricalEvents call
  failed,     \* logs whose last application threw a non-duplicate error
  dups,       \* logs of which a delivery ended in the duplicate-key catch
  failures,   \* number of persistence errors injected so far
  sup,        \* SpecConn: the connection supervisor's maps for the chain
  sol,        \* SpecSolana: the non-EVM ledger and its running backfill
  hs,         \* SpecRace: the handler invocations in flight
  fleet,      \* SpecChains: startListening over the registered chains
  raffle,     \* SpecRaffle: the Raffle contract's storage and the block time
  instr,      \* SpecInstr: transactions of several instructions and the runs over them
  ticks       \* SpecTicks: the callbacks of the health-check interval timer in flight

vars == <<chain, db, started, listeners, timerOn, liveQueue, bf, failed, dups, failures,
          sup, sol, hs, fleet, raffle, instr, ticks>>
\* the variables a specification other than Spec works on
aside == <<sup, sol, hs, fleet, raffle, instr, ticks>>

\* ------------------------------------------------------------------ helpers
Max(S) == CHOOSE x \in S : \A y \in S : y <= x
Min2(a, b) == IF a <= b THEN a ELSE b

RECURSIVE Pow2(_)
Pow2(n) == IF n = 0 THEN 1 ELSE 2 * Pow2(n - 1)

RECURSIVE Flatten(_)
Flatten(ss) == IF ss = <<>> THEN <<>> ELSE Head(ss) \o Flatten(Tail(ss))

Height == Len(chain)

\* all logs of the chain, in block order
AllLogs == Flatten(chain)
LogSet == {AllLogs[i] : i \in DOMAIN AllLogs}

\* ------------------------------------------------------------- the contract
\* Raffle.sol as an event source: the first purchase of a round emits
\* FirstTicketBonusAwarded and then TicketPurchased in one transaction, later
\* purchases emit TicketPurchased, closeRound emits WinnerPicked.
RoundsOpened == Cardinality({e \in LogSet : e.name = "FirstTicketBonusAwarded"})
RoundClosed(r) == \E e \in LogSet : e.name = "WinnerPicked" /\ e.roundId = r
RoundPlayers(r) == {e.buyer : e \in {x \in LogSet : x.name = "TicketPurchased" /\ x.roundId = r}}

Log(name, r, u, c, b, i) ==
  [name |-> name, roundId |-> r, buyer |-> u, count |-> c,
   transactionHash |-> b, index |-> i, blockNumber |-> b]

\* the log sequences the contract can add in block b
BlockContents(b) ==
  LET r == RoundsOpened
      open == r > 0 /\ ~RoundClosed(r)
  IN  {<<>>}
      \cup (IF open
            THEN {<<Log("TicketPurchased", r, p[1], p[2], b, 0)>> : p \in Purchases}
                 \cup {<<Log("WinnerPicked", r, u, 0, b, 0)>> : u \in RoundPlayers(r)}
            ELSE IF r < MaxRounds
            THEN {<<Log("FirstTicketBonusAwarded", r + 1, p[1], 0, b, 0),
                    Log("TicketPurchased", r + 1, p[1], p[2], b, 1)>> : p \in Purchases}
            ELSE {})

\* contract.queryFilter('*', fromBlock, toBlock)
QueryFilter(fromBlock, toBlock) ==
  LET lo == IF fromBlock < 1 THEN 1 ELSE fromBlock
      hi == Min2(toBlock, Height)
  IN  IF lo > hi THEN <<>> ELSE Flatten(SubSeq(chain, lo, hi))

\* contract.getRoundResult(token, roundId): the winner is not in the log
GetRoundResult(r) ==
  LET w == CHOOSE e \in LogSet : e.name = "WinnerPicked" /\ e.roundId = r
  IN  [winnerAddress |-> w.buyer, roundPlayers |-> RoundPlayers(r)]

\* ---------------------------------------------------------------- the store
\* A table is the bag of its rows (a row's uuid, createdAt and updatedAt are
\* left out, so two rows that differ only in those are two copies of one
\* element).  user_round_stats is a set: its rows differ in their key.
EmptyDb ==
  [users |-> {},
   ticketPurchaseRepository |-> EmptyBag,
   winEventRepository |-> EmptyBag,
   firstTicketBonusRepository |-> EmptyBag,
   roundRepository |-> EmptyBag,
   userRoundStatsRepository |-> {},
   blockchainSyncRepository |-> NoRecord,
   winNotifications |-> EmptyBag]

Insert(repo, row) == repo (+) SetToBag({row})

\* number of rows of a table with the given (transactionHash, logIndex)
RowsOf(repo, tx, idx) ==
  BagCardinality([row \in {x \in BagToSet(repo) :
                             x.transactionHash = tx /\ x.logIndex = idx} |-> repo[row]])

\* the unique index on (transactionHash, logIndex) rejects the insert (23505)
HasTxLog(repo, tx, idx) ==
  \E row \in BagToSet(repo) : row.transactionHash = tx /\ row.logIndex = idx

\* getOrCreateUser: insert ... orIgnore
getOrCreateUser(d, address) == [d EXCEPT !.users = @ \cup {address}]

\* getLastSyncedBlock: (syncRecord && Number(lastSyncedBlock)) || null
getLastSyncedBlock(d) ==
  IF d.blockchainSyncRepository = NoRecord \/ d.blockchainSyncRepository = 0
  THEN NoRecord ELSE d.blockchainSyncRepository

\* updateLastSyncedBlock: skipped for a falsy block number, else stored as is
updateLastSyncedBlock(d, blockNumber) ==
  IF blockNumber = 0 THEN d ELSE [d EXCEPT !.blockchainSyncRepository = blockNumber]

\* ------------------------------------------------------ idempotent applier
\* A handler returns the store it leaves behind and how it ended:
\*   "ok"         ran to its end
\*   "duplicate"  a save hit the unique index (23505), caught and logged
\*   "error"      any other error, rethrown to the caller
\* fail = k > 0 makes the k-th awaited call of the handler throw such an error.
Ok(d) == [db |-> d, outcome |-> "ok"]
Duplicate(d) == [db |-> d, outcome |-> "duplicate"]
Throw(d) == [db |-> d, outcome |-> "error"]

\* userRoundStatsRepository.findOne({user, token, roundId, contractAddress})
FindStats(d, u, r) ==
  {row \in d.userRoundStatsRepository : row.user = u /\ row.roundId = r}

\* the query builder: "roundId" < :roundId ORDER BY "roundId" DESC LIMIT 1
PreviousRound(d, u, r) ==
  LET S == {row \in d.userRoundStatsRepository : row.user = u /\ row.roundId < r}
  IN  {row \in S : \A other \in S : other.roundId <= row.roundId}

\* userRoundStatsRepository.save: update of the found row, insert otherwise
SaveStats(d, found, row) ==
  [d EXCEPT !.userRoundStatsRepository = (@ \ found) \cup {row}]

\* as PurchaseStats, but any earlier round of the user continues the streak
PurchaseStats_AnyPrior(d, u, r, count) ==
  LET found == FindStats(d, u, r)
      prev == PreviousRound(d, u, r)
      previousRound == CHOOSE row \in prev : TRUE
      userRoundStats ==
        IF found = {}
        THEN [user |-> u, roundId |-> r, ticketCount |-> count,
              isConsecutive |-> FALSE, consecutiveRounds |-> 0,
              totalWins |-> IF prev = {} THEN 0 ELSE previousRound.totalWins]
        ELSE [(CHOOSE row \in found : TRUE) EXCEPT !.ticketCount = @ + count]
  IN  IF prev # {}
      THEN [userRoundStats EXCEPT
              !.isConsecutive = TRUE,
              !.consecutiveRounds = IF previousRound.isConsecutive
                                    THEN previousRound.consecutiveRounds + 1 ELSE 1]
      ELSE [userRoundStats EXCEPT !.consecutiveRounds = 0]

\* the row computed by processTicketPurchasedEvent, streak included
PurchaseStats(d, u, r, count) ==
  LET found == FindStats(d, u, r)
      prev == PreviousRound(d, u, r)
      previousRound == CHOOSE row \in prev : TRUE
      userRoundStats ==
        IF found = {}
        THEN [user |-> u, roundId |-> r, ticketCount |-> count,
              isConsecutive |-> FALSE, consecutiveRounds |-> 0,
              totalWins |-> IF prev = {} THEN 0 ELSE previousRound.totalWins]
        ELSE [(CHOOSE row \in found : TRUE) EXCEPT !.ticketCount = @ + count]
  IN  IF prev # {} /\ previousRound.roundId = r - 1
      THEN [userRoundStats EXCEPT
              !.isConsecutive = TRUE,
              !.consecutiveRounds = IF previousRound.isConsecutive
                                    THEN previousRound.consecutiveRounds + 1 ELSE 1]
      ELSE [userRoundStats EXCEPT !.consecutiveRounds = 0]

\* the row computed by processWinnerPickedEvent
WinnerStats(d, u, r) ==
  LET found == FindStats(d, u, r)
  IN  IF found = {}
      THEN [user |-> u, roundId |-> r, ticketCount |-> 0, isConsecutive |-> FALSE,
            consecutiveRounds |-> 0, totalWins |-> 1]
      ELSE [(CHOOSE row \in found : TRUE) EXCEPT !.totalWins = @ + 1]

EventRow(e, u) ==
  [user |-> u, roundId |-> e.roundId, count |-> e.count,
   transactionHash |-> e.transactionHash, logIndex |-> e.index]

\* ticketPurchaseRepository.save
SaveTicketPurchase(d, e) ==
  [d EXCEPT !.ticketPurchaseRepository = Insert(@, EventRow(e, e.buyer))]

\* as processTicketPurchasedEvent, but with the statistics written before the
\* purchase row is inserted
processTicketPurchasedEvent_StatsFirst(d, e, fail) ==
  LET d1 == getOrCreateUser(d, e.buyer)
      d2 == SaveStats(d1, FindStats(d1, e.buyer, e.roundId),
                      PurchaseStats(d1, e.buyer, e.roundId, e.count))
      d3 == SaveTicketPurchase(d2, e)
  IN  IF fail = 1 THEN Throw(d)
      ELSE IF fail = 2 THEN Throw(d1)
      ELSE IF HasTxLog(d2.ticketPurchaseRepository, e.transactionHash, e.index)
      THEN Duplicate(d2)
      ELSE IF fail = 3 THEN Throw(d2)
      ELSE IF fail = 4 THEN Throw(d3)
      ELSE Ok(updateLastSyncedBlock(d3, e.blockNumber))

processTicketPurchasedEvent(d, e, fail) ==
  LET d1 == getOrCreateUser(d, e.buyer)
      d2 == SaveTicketPurchase(d1, e)
      d3 == SaveStats(d2, FindStats(d2, e.buyer, e.roundId),
                      PurchaseStats(d2, e.buyer, e.roundId, e.count))
  IN  IF fail = 1 THEN Throw(d)
      ELSE IF HasTxLog(d1.ticketPurchaseRepository, e.transactionHash, e.index)
      THEN Duplicate(d1)
      ELSE IF fail = 2 THEN Throw(d1)
      ELSE IF fail = 3 THEN Throw(d2)
      ELSE IF fail = 4 THEN Throw(d3)
      ELSE Ok(updateLastSyncedBlock(d3, e.blockNumber))

\* getOrCreateUser for every player of the round
AddUsers(d, S) == [d EXCEPT !.users = @ \cup S]

\* winEventRepository.save
SaveWinEvent(d, e, winner) ==
  [d EXCEPT !.winEventRepository = Insert(@, EventRow(e, winner))]

\* notificationService.createWinNotifications(winEvent): the call is kept with
\* the WinEvent's key, winEvent.winner and winEvent.players
createWinNotifications(d, e, winner, players) ==
  [d EXCEPT !.winNotifications =
     Insert(@, [transactionHash |-> e.transactionHash, logIndex |-> e.index,
                winner |-> winner, players |-> players])]

processWinnerPickedEvent(d, e, fail) ==
  LET res == GetRoundResult(e.roundId)
      winner == res.winnerAddress
      d1 == getOrCreateUser(d, winner)
      d2 == SaveStats(d1, FindStats(d1, winner, e.roundId), WinnerStats(d1, winner, e.roundId))
      d3 == AddUsers(d2, res.roundPlayers)
      d4 == createWinNotifications(SaveWinEvent(d3, e, winner), e, winner, res.roundPlayers)
  IN  IF fail = 1 THEN Throw(d)
      ELSE IF fail = 2 THEN Throw(d1)
      ELSE IF HasTxLog(d3.winEventRepository, e.transactionHash, e.index)
      THEN Duplicate(d3)
      ELSE IF fail = 3 THEN Throw(d3)
      ELSE IF fail = 4 THEN Throw(d4)
      ELSE Ok(updateLastSyncedBlock(d4, e.blockNumber))

\* roundRepository.save: the rounds table has no unique index
SaveRound(d, e) ==
  [d EXCEPT !.roundRepository = Insert(@, [roundId |-> e.roundId])]

\* firstTicketBonusRepository.save
SaveFirstTicketBonus(d, e) ==
  [d EXCEPT !.firstTicketBonusRepository = Insert(@, EventRow(e, e.buyer))]

processFirstTicketBonusEvent(d, e, fail) ==
  LET d1 == getOrCreateUser(d, e.buyer)
      d2 == SaveRound(d1, e)
      d3 == SaveFirstTicketBonus(d2, e)
  IN  IF fail = 1 THEN Throw(d)
      ELSE IF fail = 2 THEN Throw(d1)
      ELSE IF HasTxLog(d2.firstTicketBonusRepository, e.transactionHash, e.index)
      THEN Duplicate(d2)
      ELSE IF fail = 3 THEN Throw(d2)
      ELSE IF fail = 4 THEN Throw(d3)
      ELSE Ok(updateLastSyncedBlock(d3, e.blockNumber))

\* processEvent: the switch on event.eventName
processEvent(d, e, fail) ==
  CASE e.name = "WinnerPicked" -> processWinnerPickedEvent(d, e, fail)
    [] e.name = "TicketPurchased" -> processTicketPurchasedEvent(d, e, fail)
    [] e.name = "FirstTicketBonusAwarded" -> processFirstTicketBonusEvent(d, e, fail)
    [] OTHER -> Ok(d)

\* the awaited calls of a handler that can throw
FailPoints == 1..4

\* ------------------------------------------------------------ the backfill
\* fetchHistoricalEvents as a process.  pc is the await it is suspended at:
\*   "fetch"    retryWithBackoff(queryFilter) of chunk [currentFrom, currentTo]
\*   "apply"    the for loop over the fetched events
\*   "advance"  updateLastSyncedBlock(currentTo)
\*   "delay"    delay(100) between two chunks
\*   "done"     returned `result` to `caller`
IdleBf ==
  [pc |-> "idle", caller |-> "none", fromBlock |-> 0, toBlock |-> 0,
   currentFrom |-> 0, currentTo |-> 0, events |-> <<>>, attempt |-> 1,
   delays |-> <<>>, chunks |-> <<>>, result |-> FALSE, error |-> "none"]

\* as ChunkEnd, without the - 1
ChunkEnd_OffByOne(currentFrom, toBlock) == Min2(currentFrom + maxBlockRange, toBlock)

\* currentTo = Math.min(currentFrom + maxBlockRange - 1, toBlock)
ChunkEnd(currentFrom, toBlock) == Min2(currentFrom + maxBlockRange - 1, toBlock)

\* entry of fetchHistoricalEvents(name, contract, fromBlock, toBlock)
fetchHistoricalEvents(caller, fromBlock, toBlock) ==
  [IdleBf EXCEPT !.pc = "fetch", !.caller = caller,
                 !.fromBlock = fromBlock, !.toBlock = toBlock,
                 !.currentFrom = fromBlock,
                 !.currentTo = IF toBlock - fromBlock + 1 <= maxBlockRange
                               THEN toBlock ELSE ChunkEnd(fromBlock, toBlock)]

\* delay = baseDelay * Math.pow(2, attempt - 1)
BackoffDelay(attempt) == baseDelay * Pow2(attempt - 1)

\* getDeploymentBlock: the first block holding the contract's code (the
\* contract is deployed in block 1), 0 when the address holds no code yet
getDeploymentBlock == IF Height >= 1 THEN 1 ELSE 0

\* as ListenBackfill, but the range starts at the cursor itself
ListenBackfill_FromCursor(d, currentBlock) ==
  LET lastSyncedBlock == getLastSyncedBlock(d)
  IN  IF lastSyncedBlock = NoRecord
      THEN fetchHistoricalEvents("listen", getDeploymentBlock, currentBlock)
      ELSE IF lastSyncedBlock < currentBlock
      THEN fetchHistoricalEvents("listen", lastSyncedBlock, currentBlock)
      ELSE [IdleBf EXCEPT !.pc = "done", !.caller = "listen", !.result = TRUE]

\* listenToEthereumEvents after setupEventListeners: which range to backfill
ListenBackfill(d, currentBlock) ==
  LET lastSyncedBlock == getLastSyncedBlock(d)
  IN  IF lastSyncedBlock = NoRecord
      THEN fetchHistoricalEvents("listen", getDeploymentBlock, currentBlock)
      ELSE IF lastSyncedBlock < currentBlock
      THEN fetchHistoricalEvents("listen", lastSyncedBlock + 1, currentBlock)
      ELSE [IdleBf EXCEPT !.pc = "done", !.caller = "listen", !.result = TRUE]

\* as RetryAgain, with one attempt more
RetryAgain_OneMore(attempt) == attempt <= maxRetries

\* should retryWithBackoff try again after a rate-limited attempt
RetryAgain(attempt) == attempt < maxRetries

\* as AfterItem, with the non-duplicate branch rethrowing to the outer catch
AfterItem_Rethrow(b, outcome) ==
  IF outcome = "error"
  THEN [b EXCEPT !.pc = "done", !.result = FALSE, !.error = "item"]
  ELSE [b EXCEPT !.events = Tail(@)]

\* the catch around processEvent in the for loop: both branches only log, and
\* the loop goes on with the next event
AfterItem(b, outcome) == [b EXCEPT !.events = Tail(@)]

\* bookkeeping of the logs whose application is outstanding after an error
NoteOutcome(f, e, outcome) ==
  IF outcome = "error" THEN f \cup {e} ELSE f \ {e}
NoteDuplicate(s, e, outcome) ==
  IF outcome = "duplicate" THEN s \cup {e} ELSE s

\* the values sup and sol keep in a specification that does not use them
Unsupervised == [kind |-> "none"]
NoLedger == [pc |-> "none"]
NoCallers == [kind |-> "none"]
NoChains == [pc |-> "none"]
NoContract == [deployed |-> FALSE]
NoProgram == [pc |-> "none"]
NoTimer == [pc |-> "none"]

\* ----------------------------------------------------------------- actions
Init ==
  /\ chain = <<>>
  /\ db = EmptyDb
  /\ started = FALSE
  /\ listeners = FALSE
  /\ timerOn = FALSE
  /\ liveQueue = <<>>
  /\ bf = IdleBf
  /\ failed = {}
  /\ dups = {}
  /\ failures = 0
  /\ sup = Unsupervised
  /\ sol = NoLedger
  /\ hs = NoCallers
  /\ fleet = NoChains
  /\ raffle = NoContract /\ instr = NoProgram /\ ticks = NoTimer

\* the chain produces a block; its logs reach the attached subscriptions
MineBlock ==
  /\ Height < MaxHeight
  /\ \E content \in BlockContents(Height + 1) :
       /\ chain' = Append(chain, content)
       /\ liveQueue' = IF listeners THEN liveQueue \o content ELSE liveQueue
  /\ UNCHANGED <<db, started, listeners, timerOn, bf, failed, dups, failures>>
  /\ UNCHANGED aside

\* startListening -> listenToEthereumEvents: read the height, subscribe,
\* then backfill from the cursor
StartListening ==
  /\ ~started
  /\ started' = TRUE
  /\ listeners' = TRUE
  /\ bf' = ListenBackfill(db, Height)
  /\ UNCHANGED <<chain, db, timerOn, liveQueue, failed, dups, failures>>
  /\ UNCHANGED aside

\* a subscription callback of setupEventListeners runs its handler
LiveEvent ==
  /\ liveQueue # <<>>
  /\ \E fail \in 0..Max(FailPoints) :
       /\ fail > 0 => failures < MaxFailures
       /\ LET e == Head(liveQueue)
              r == processEvent(db, e, fail)
          IN  /\ db' = r.db
              /\ failed' = NoteOutcome(failed, e, r.outcome)
              /\ dups' = NoteDuplicate(dups, e, r.outcome)
              /\ failures' = IF fail > 0 THEN failures + 1 ELSE failures
  /\ liveQueue' = Tail(liveQueue)
  /\ UNCHANGED <<chain, started, listeners, timerOn, bf>>
  /\ UNCHANGED aside

\* one attempt of retryWithBackoff(() => contract.queryFilter(...))
BfFetch ==
  /\ bf.pc = "fetch"
  /\ \E answer \in {"ok", "rateLimited", "otherError"} :
       bf' = CASE answer = "ok" ->
                    [bf EXCEPT !.pc = "apply",
                               !.events = QueryFilter(bf.currentFrom, bf.currentTo)]
               [] answer = "rateLimited" /\ RetryAgain(bf.attempt) ->
                    [bf EXCEPT !.attempt = @ + 1,
                               !.delays = Append(@, BackoffDelay(bf.attempt))]
               [] OTHER ->
                    [bf EXCEPT !.pc = "done", !.result = FALSE,
                               !.error = IF answer = "rateLimited"
                                         THEN "rateLimit" ELSE "other"]
  /\ UNCHANGED <<chain, db, started, listeners, timerOn, liveQueue, failed, dups, failures>>
  /\ UNCHANGED aside

\* one iteration of the for loop: processEvent under its try/catch
BfApply ==
  /\ bf.pc = "apply"
  /\ bf.events # <<>>
  /\ \E fail \in 0..Max(FailPoints) :
       /\ fail > 0 => failures < MaxFailures
       /\ LET e == Head(bf.events)
              r == processEvent(db, e, fail)
          IN  /\ db' = r.db
              /\ failed' = NoteOutcome(failed, e, r.outcome)
              /\ dups' = NoteDuplicate(dups, e, r.outcome)
              /\ failures' = IF fail > 0 THEN failures + 1 ELSE failures
              /\ bf' = AfterItem(bf, r.outcome)
  /\ UNCHANGED <<chain, started, listeners, timerOn, liveQueue>>
  /\ UNCHANGED aside

\* updateLastSyncedBlock(currentTo) after the loop, then the next chunk or return
BfAdvance ==
  /\ bf.pc = "apply"
  /\ bf.events = <<>>
  /\ \E fail \in 0..1 :
       /\ fail > 0 => failures < MaxFailures
       /\ failures' = IF fail > 0 THEN failures + 1 ELSE failures
       /\ IF fail > 0
          THEN /\ db' = db
               /\ bf' = [bf EXCEPT !.pc = "done", !.result = FALSE, !.error = "cursor"]
          ELSE /\ db' = updateLastSyncedBlock(db, bf.currentTo)
               /\ bf' = [bf EXCEPT
                           !.chunks = Append(@, <<bf.currentFrom, bf.currentTo>>),
                           !.pc = IF bf.currentTo + 1 <= bf.toBlock THEN "delay" ELSE "done",
                           !.result = TRUE]
  /\ UNCHANGED <<chain, started, listeners, timerOn, liveQueue, failed, dups>>
  /\ UNCHANGED aside

\* delay(100), then the next iteration of the while loop
BfDelay ==
  /\ bf.pc = "delay"
  /\ bf' = [bf EXCEPT !.pc = "fetch",
                      !.currentFrom = bf.currentTo + 1,
                      !.currentTo = ChunkEnd(bf.currentTo + 1, bf.toBlock),
                      !.attempt = 1, !.delays = <<>>]
  /\ UNCHANGED <<chain, db, started, listeners, timerOn, liveQueue, failed, dups, failures>>
  /\ UNCHANGED aside

\* the caller resumes: startListening / reconnectBlockchain start the health
\* timer; the timer callback reconnects when the probe reported false
BfReturn ==
  /\ bf.pc = "done"
  /\ IF bf.caller = "health" /\ ~bf.result
     THEN /\ listeners' = TRUE
          /\ timerOn' = FALSE
          /\ bf' = ListenBackfill(db, Height)
     ELSE /\ listeners' = listeners
          /\ timerOn' = TRUE
          /\ bf' = IdleBf
  /\ UNCHANGED <<chain, db, started, liveQueue, failed, dups, failures>>
  /\ UNCHANGED aside

\* the setInterval callback: checkConnectionHealth on a WebSocketProvider
HealthCheck ==
  /\ timerOn
  /\ bf.pc = "idle"
  /\ LET blockNumber == Height
         lastSyncedBlock == getLastSyncedBlock(db)
     IN  /\ lastSyncedBlock # NoRecord
         /\ blockNumber - lastSyncedBlock > syncThresholdBlocks
         /\ bf' = fetchHistoricalEvents("health", lastSyncedBlock + 1, blockNumber)
  /\ UNCHANGED <<chain, db, started, listeners, timerOn, liveQueue, failed, dups, failures>>
  /\ UNCHANGED aside

Next ==
  \/ MineBlock
  \/ StartListening
  \/ LiveEvent
  \/ BfFetch
  \/ BfApply
  \/ BfAdvance
  \/ BfDelay
  \/ BfReturn
  \/ HealthCheck

Spec == Init /\ [][Next]_vars

\* ------------------------------------------------ the connection supervisor
\* SpecConn.  sup is the runtime of one registered chain:
\*   kind, wsEvents     "ws" | "http" (EVM over WebSocket or HTTP) | "solana";
\*                      provider._websocket is accessible (ws only)
\*   up                 the node answers requests
\*   height, cursor     chain height; blockchain_sync.lastSyncedBlock
\*   connectionStates, reconnectAttempts, timer
\*                      the service's maps for the chain (timer: an entry in
\*                      healthCheckTimers)
\*   adapter            providers[name] with contracts[name]: listeners are
\*                      attached, the provider is destroyed, its 'open' event
\*                      is still to come
\*   orphans            adapters replaced in the maps while holding listeners
\*   rc                 the reconnectBlockchain / startListening calls in flight
\*   timeouts           pending setTimeout(() => reconnectBlockchain(name))
\*   probe              the running health-timer callback
\*   stopped            cleanup() has returned (SpecStop)
\*   consecFailed, forces, lastProbe
\*                      history: reconnect attempts failed in a row, force
\*                      requests made, how the last probe ended ("failed",
\*                      "passed", "caughtUp", "catchUpFailed")
Procs == 1..MaxProcs
Kinds == {<<"ws", TRUE>>, <<"ws", FALSE>>, <<"http", FALSE>>, <<"solana", FALSE>>}

IdleRc ==
  [pc |-> "idle", trigger |-> "none", attempt |-> 0, delayMs |-> 0,
   own |-> FALSE, currentBlock |-> 0]
IdleProbe == [pc |-> "idle", fromBlock |-> 0, toBlock |-> 0]
\* a Solana slot number advances by ten where an EVM height advances by one
\* (the reason the Solana probe multiplies its threshold)
SlotsPerBlock(kind) == IF kind = "solana" THEN solanaThresholdFactor ELSE 1

\* new WebSocketProvider / JsonRpcProvider / Connection, new Contract objects
FreshAdapter(s) ==
  [subscribed |-> FALSE, destroyed |-> FALSE,
   openPending |-> s.kind = "ws" /\ s.wsEvents]

\* the adapter delivers events to its listeners
Delivering(a) == a.subscribed /\ ~a.destroyed

\* addBlockchain(name, config): the maps now hold a new provider and new
\* contracts; whatever they held before is only reachable by the calls that
\* captured it
addBlockchain(s) ==
  LET t == [s EXCEPT
              !.orphans = IF Delivering(s.adapter) THEN @ + 1 ELSE @,
              !.adapter = FreshAdapter(s),
              !.rc = [p \in Procs |-> [s.rc[p] EXCEPT !.own = FALSE]]]
  IN  CASE s.kind = "ws" /\ s.wsEvents -> t
        [] s.kind = "ws" -> [t EXCEPT !.connectionStates = TRUE]
        [] OTHER -> [t EXCEPT !.connectionStates = TRUE, !.reconnectAttempts = 0]

\* the lowest free slot for a reconnectBlockchain call
FreeProcs(s) == {p \in Procs : s.rc[p].pc = "idle"}
FreeProc(s) == CHOOSE p \in FreeProcs(s) : \A q \in FreeProcs(s) : p <= q
\* a reconnectBlockchain call either returns at its bound or takes a free slot
CanReconnect(s) == s.reconnectAttempts >= maxReconnectAttempts \/ FreeProcs(s) # {}

\* reconnectBlockchain up to its first await: the attempt bound, the counter,
\* and cleanupBlockchain clearing the timer and removing the listeners of
\* contracts[name]
ReconnectStart(s) ==
  LET currentAttempts == s.reconnectAttempts
  IN  IF currentAttempts >= maxReconnectAttempts
      THEN s
      ELSE [s EXCEPT !.reconnectAttempts = currentAttempts + 1,
                     !.timer = FALSE,
                     !.adapter.subscribed = FALSE,
                     !.rc[FreeProc(s)] =
                        [IdleRc EXCEPT !.pc = "destroy", !.trigger = "reconnect",
                                       !.attempt = currentAttempts + 1]]

\* delayMs = this.reconnectDelay * currentAttempts, currentAttempts being the
\* counter before this attempt was counted
ReconnectDelay(attempt) == reconnectDelay * (attempt - 1)

\* as SyncThreshold, with the same threshold for every chain
SyncThreshold_Global(kind) == syncThresholdBlocks

\* the threshold a probe compares the lag with
SyncThreshold(kind) ==
  IF kind = "solana" THEN syncThresholdBlocks * solanaThresholdFactor
  ELSE syncThresholdBlocks

\* a request to the provider an rc call holds is answered
Answers(s, p) == s.up /\ (s.rc[p].own => ~s.adapter.destroyed)

\* listenTo...Events threw: startListening only logs; reconnectBlockchain
\* marks the chain disconnected and schedules the next attempt
ListenFailed(s, p) ==
  IF s.rc[p].trigger = "start"
  THEN [s EXCEPT !.rc[p] = IdleRc, !.timer = TRUE]
  ELSE [s EXCEPT !.rc[p] = IdleRc,
                 !.connectionStates = FALSE,
                 !.timeouts = @ + 1,
                 !.consecFailed = Min2(@ + 1, maxReconnectAttempts + 1)]

\* listenTo...Events returned: startHealthCheck; reconnectBlockchain also
\* marks the chain connected and clears the counter
ListenDone(s, p) ==
  IF s.rc[p].trigger = "start"
  THEN [s EXCEPT !.rc[p] = IdleRc, !.timer = TRUE]
  ELSE [s EXCEPT !.rc[p] = IdleRc, !.timer = TRUE,
                 !.connectionStates = TRUE,
                 !.reconnectAttempts = 0,
                 !.consecFailed = 0]

\* as AfterProbe, but a healthy probe leaves the attempt counter as it is
AfterProbe_KeepCounter(s, isHealthy) ==
  LET t == [s EXCEPT !.probe = IdleProbe, !.connectionStates = isHealthy]
  IN  IF isHealthy THEN [t EXCEPT !.consecFailed = 0]
      ELSE ReconnectStart(t)

\* the health-timer callback after checkConnectionHealth returned isHealthy
AfterProbe(s, isHealthy) ==
  LET t == [s EXCEPT !.probe = IdleProbe, !.connectionStates = isHealthy]
  IN  IF isHealthy THEN [t EXCEPT !.reconnectAttempts = 0, !.consecFailed = 0]
      ELSE ReconnectStart(t)

\* the variables of Spec, which the other specifications leave as constructed
syncVars == <<chain, db, started, listeners, timerOn, liveQueue, bf, failed, dups, failures>>
Quiet ==
  /\ chain = <<>> /\ db = EmptyDb /\ started = FALSE /\ listeners = FALSE
  /\ timerOn = FALSE /\ liveQueue = <<>> /\ bf = IdleBf
  /\ failed = {} /\ dups = {} /\ failures = 0
  /\ hs = NoCallers
  /\ fleet = NoChains
  /\ raffle = NoContract /\ instr = NoProgram /\ ticks = NoTimer

\* index.ts: addBlockchain for the configured chain, then startListening is
\* suspended in listenTo...Events at its height request
ConnInit ==
  /\ Quiet
  /\ sol = NoLedger
  /\ \E k \in Kinds, u \in BOOLEAN :
       LET registered == addBlockchain(
               [kind |-> k[1], wsEvents |-> k[2], up |-> u,
                height |-> 0, cursor |-> NoRecord,
                connectionStates |-> FALSE, reconnectAttempts |-> 0,
                timer |-> FALSE,
                adapter |-> [subscribed |-> FALSE, destroyed |-> FALSE,
                             openPending |-> FALSE],
                orphans |-> 0,
                rc |-> [p \in Procs |->
                          IF p = 1
                          THEN [IdleRc EXCEPT !.pc = "height", !.trigger = "start"]
                          ELSE IdleRc],
                timeouts |-> 0, probe |-> IdleProbe,
                consecFailed |-> 0, forces |-> 0, lastProbe |-> "none",
                stopped |-> FALSE])
       IN  sup = [registered EXCEPT !.rc[1].own = TRUE]

\* the node stops or resumes answering
NodeFlip ==
  /\ sup' = [sup EXCEPT !.up = ~@]
  /\ UNCHANGED <<syncVars, sol, hs, fleet, raffle, instr, ticks>>

\* the chain produces a block; a log in it reaches every attached listener
\* set, whose handler stores the block as cursor
MineSlot ==
  /\ \E log \in BOOLEAN :
       LET next == sup.height + SlotsPerBlock(sup.kind)
       IN  /\ next <= MaxSlot * SlotsPerBlock(sup.kind)
           /\ log => /\ sup.kind # "solana" /\ sup.up
                     /\ (Delivering(sup.adapter) \/ sup.orphans > 0)
           /\ sup' = [sup EXCEPT !.height = next,
                                 !.cursor = IF log THEN next ELSE @]
  /\ UNCHANGED <<syncVars, sol, hs, fleet, raffle, instr, ticks>>

\* wsProvider._websocket.on('open')
WsOpen ==
  /\ sup.adapter.openPending /\ sup.up /\ ~sup.adapter.destroyed
  /\ sup' = [sup EXCEPT !.adapter.openPending = FALSE,
                        !.connectionStates = TRUE,
                        !.reconnectAttempts = 0,
                        !.consecFailed = 0]
  /\ UNCHANGED <<syncVars, sol, hs, fleet, raffle, instr, ticks>>

\* wsProvider._websocket.on('close') / on('error')
WsClose ==
  /\ sup.kind = "ws" /\ sup.wsEvents /\ ~sup.adapter.openPending
  /\ ~sup.up \/ sup.adapter.destroyed
  /\ sup.connectionStates
  /\ sup' = [sup EXCEPT !.connectionStates = FALSE]
  /\ UNCHANGED <<syncVars, sol, hs, fleet, raffle, instr, ticks>>

\* the setInterval callback starts: checkConnectionHealth asks for the height
HcTick ==
  /\ sup.timer /\ sup.probe.pc = "idle"
  /\ sup' = [sup EXCEPT !.probe.pc = "height", !.lastProbe = "none"]
  /\ UNCHANGED <<syncVars, sol, hs, fleet, raffle, instr, ticks>>

\* getBlockNumber / getSlot returned or threw; the lag decides on a catch-up
HcHeight ==
  /\ sup.probe.pc = "height"
  /\ LET blockNumber == sup.height
         lastSyncedBlock == sup.cursor
         blocksBehind == blockNumber - lastSyncedBlock
     IN  IF ~(sup.up /\ ~sup.adapter.destroyed)
         THEN /\ CanReconnect(sup)
              /\ sup' = AfterProbe([sup EXCEPT !.lastProbe = "failed"], FALSE)
         ELSE IF /\ sup.kind # "http"
                 /\ lastSyncedBlock # NoRecord
                 /\ blocksBehind > SyncThreshold(sup.kind)
         THEN sup' = [sup EXCEPT !.probe = [pc |-> "backfill",
                                            fromBlock |-> lastSyncedBlock + 1,
                                            toBlock |-> blockNumber]]
         ELSE sup' = AfterProbe([sup EXCEPT !.lastProbe = "passed"], TRUE)
  /\ UNCHANGED <<syncVars, sol, hs, fleet, raffle, instr, ticks>>

\* as ProbeResult, with a lagging chain always reported unhealthy
ProbeResult_Unhealthy(kind, result) == FALSE

\* what checkConnectionHealth returns after the catch-up returned `result`:
\* the EVM probe returns it, the Solana probe does not look at it
ProbeResult(kind, result) == IF kind = "solana" THEN TRUE ELSE result

\* fetchHistoricalEvents / fetchSolanaTransactions started by the probe returned
HcBackfill ==
  /\ sup.probe.pc = "backfill"
  /\ \E result \in BOOLEAN :
       /\ ~ProbeResult(sup.kind, result) => CanReconnect(sup)
       /\ sup' = AfterProbe(
                   [sup EXCEPT !.cursor = IF result THEN sup.probe.toBlock ELSE @,
                               !.lastProbe = IF result THEN "caughtUp"
                                             ELSE "catchUpFailed"],
                   ProbeResult(sup.kind, result))
  /\ UNCHANGED <<syncVars, sol, hs, fleet, raffle, instr, ticks>>

\* cleanupBlockchain after removeAllListeners: providers[name], read now, is
\* destroyed when it is a WebSocketProvider; then delayMs is computed
RcDestroy ==
  /\ \E p \in Procs :
       /\ sup.rc[p].pc = "destroy"
       /\ sup' = [sup EXCEPT
                    !.adapter.destroyed = IF sup.kind = "ws" THEN TRUE ELSE @,
                    !.rc[p].pc = "delay",
                    !.rc[p].delayMs = ReconnectDelay(sup.rc[p].attempt)]
  /\ UNCHANGED <<syncVars, sol, hs, fleet, raffle, instr, ticks>>

\* delay(delayMs) elapsed: addBlockchain, then listenTo...Events captures the
\* new contracts and asks for the height
RcConnect ==
  /\ \E p \in Procs :
       /\ sup.rc[p].pc = "delay"
       /\ Delivering(sup.adapter) => sup.orphans < MaxOrphans
       /\ sup' = [addBlockchain(sup) EXCEPT !.rc[p].pc = "height", !.rc[p].own = TRUE]
  /\ UNCHANGED <<syncVars, sol, hs, fleet, raffle, instr, ticks>>

\* listenTo...Events up to its backfill: getBlockNumber / getSlot, then (EVM)
\* setupEventListeners attaching contract.on listeners to the captured
\* contract; a request the provider does not answer throws
RcListen ==
  /\ \E p \in Procs :
       /\ sup.rc[p].pc = "height"
       /\ sup' = IF ~Answers(sup, p) THEN ListenFailed(sup, p)
                 ELSE LET s == [sup EXCEPT !.rc[p].currentBlock = sup.height,
                                           !.rc[p].pc = "backfill"]
                      IN  IF sup.kind = "solana" THEN s
                          ELSE IF sup.rc[p].own
                          THEN [s EXCEPT !.adapter.subscribed = TRUE]
                          ELSE [s EXCEPT !.orphans = @ + 1]
       /\ sup'.orphans <= MaxOrphans
  /\ UNCHANGED <<syncVars, sol, hs, fleet, raffle, instr, ticks>>

\* the backfill of listenTo...Events returned (its result is not looked at),
\* and with it the listen call
RcBackfill ==
  /\ \E p \in Procs, result \in BOOLEAN :
       /\ sup.rc[p].pc = "backfill"
       /\ LET lastSyncedBlock == sup.cursor
              currentBlock == sup.rc[p].currentBlock
              ran == lastSyncedBlock = NoRecord \/ lastSyncedBlock < currentBlock
          IN  /\ ~ran => result
              /\ sup' = ListenDone(
                          [sup EXCEPT !.cursor = IF ran /\ result /\ currentBlock # 0
                                                 THEN currentBlock ELSE @],
                          p)
  /\ UNCHANGED <<syncVars, sol, hs, fleet, raffle, instr, ticks>>

\* a scheduled retry fires: reconnectBlockchain(name)
FireRetry ==
  /\ sup.timeouts > 0
  /\ CanReconnect(sup)
  /\ sup' = ReconnectStart([sup EXCEPT !.timeouts = @ - 1])
  /\ UNCHANGED <<syncVars, sol, hs, fleet, raffle, instr, ticks>>

\* the forceReconnectBlockchain mutation: forceReconnect -> reconnectBlockchain
ForceReconnect ==
  /\ sup.forces < MaxForces
  /\ CanReconnect(sup)
  /\ sup' = ReconnectStart([sup EXCEPT !.forces = @ + 1])
  /\ UNCHANGED <<syncVars, sol, hs, fleet, raffle, instr, ticks>>

ConnNext ==
  \/ NodeFlip
  \/ MineSlot
  \/ WsOpen
  \/ WsClose
  \/ HcTick
  \/ HcHeight
  \/ HcBackfill
  \/ RcDestroy
  \/ RcConnect
  \/ RcListen
  \/ RcBackfill
  \/ FireRetry
  \/ ForceReconnect

SpecConn == ConnInit /\ [][ConnNext]_vars

\* ------------------------------------------------------ stopping the service
\* SpecStop.  The supervisor of SpecConn without force-reconnect requests,
\* and the shutdown call.
\* cleanup(): stopHealthChecks clears the timer; cleanupBlockchain clears it
\* again, removes the listeners of contracts[name] and destroys a
\* WebSocketProvider.  Calls in flight and scheduled retries are left alone.
cleanup(s) ==
  [s EXCEPT !.timer = FALSE,
            !.adapter.subscribed = FALSE,
            !.adapter.destroyed = IF s.kind = "ws" THEN TRUE ELSE @,
            !.stopped = TRUE]

Cleanup ==
  /\ ~sup.stopped
  /\ sup' = cleanup(sup)
  /\ UNCHANGED <<syncVars, sol, hs, fleet, raffle, instr, ticks>>

StopNext ==
  \/ NodeFlip
  \/ MineSlot
  \/ WsOpen
  \/ WsClose
  \/ HcTick
  \/ HcHeight
  \/ HcBackfill
  \/ RcDestroy
  \/ RcConnect
  \/ RcListen
  \/ RcBackfill
  \/ FireRetry
  \/ Cleanup

SpecStop == ConnInit /\ [][StopNext]_vars

\* ------------------------------------------------- rounds of several users
\* SpecStats.  The synchroniser of Spec on a contract with several users and
\* more rounds, so that a user can play rounds in a row or miss one.  A block
\* holds one transaction, or the transaction that closes a round followed by
\* the one that opens the next.
StatsPurchases == {<<u, 1>> : u \in Users}

StatsContents(b) ==
  LET r == RoundsOpened
      open == r > 0 /\ ~RoundClosed(r)
      opening(i) == IF r < MaxStatsRounds
                    THEN {<<Log("FirstTicketBonusAwarded", r + 1, p[1], 0, b, i),
                            Log("TicketPurchased", r + 1, p[1], p[2], b, i + 1)>> :
                            p \in StatsPurchases}
                    ELSE {}
  IN  IF open
      THEN {<<Log("TicketPurchased", r, p[1], p[2], b, 0)>> : p \in StatsPurchases}
           \cup {<<Log("WinnerPicked", r, u, 0, b, 0)>> \o next :
                   u \in RoundPlayers(r), next \in {<<>>} \cup opening(1)}
      ELSE opening(0)

\* the chain produces a block; its logs reach the attached subscriptions
StatsMine ==
  /\ Height < MaxStatsHeight
  /\ \E content \in StatsContents(Height + 1) :
       /\ chain' = Append(chain, content)
       /\ liveQueue' = IF listeners THEN liveQueue \o content ELSE liveQueue
  /\ UNCHANGED <<db, started, listeners, timerOn, bf, failed, dups, failures>>
  /\ UNCHANGED aside

StatsNext ==
  \/ StatsMine
  \/ StartListening
  \/ LiveEvent
  \/ BfFetch
  \/ BfApply
  \/ BfAdvance
  \/ BfDelay
  \/ BfReturn
  \/ HealthCheck

SpecStats == Init /\ [][StatsNext]_vars

\* ------------------------------------------------------ the non-EVM backfill
\* SpecSolana.  sol is the program's ledger and the running
\* fetchSolanaTransactions call:
\*   ledger          the program's transactions, oldest first; a transaction's
\*                   signature is its position
\*   pc              "idle" | "page" (the pagination loop) | "apply" (the for
\*                   loop over allSignatures)
\*   fromBlock, toBlock, before, allSignatures   the locals of the call;
\*                   before = 0 is undefined
\*   done            the signatures the for loop has gone through, in order
\*   pages           pages fetched by the call
\* The store is db, the cursor db.blockchainSyncRepository.
SolTx(name, r, u, bonus, slot, sig) ==
  [name |-> name, roundId |-> r, buyer |-> u, count |-> 1, bonus |-> bonus,
   slot |-> slot, signature |-> sig, index |-> 0]

SolTxs(l) == {l[i] : i \in DOMAIN l}
SolRoundsOpened(l) == Cardinality({t \in SolTxs(l) : t.bonus})
SolRoundClosed(l, r) == \E t \in SolTxs(l) : t.name = "consume_randomness" /\ t.roundId = r
SolPlayers(l, r) ==
  {t.buyer : t \in {x \in SolTxs(l) : x.name = "buy_tickets_sol" /\ x.roundId = r}}

\* connection.getSlot()
GetSlot(l) == IF l = <<>> THEN 0 ELSE l[Len(l)].slot

\* the transactions the program can take next: the first purchase of a round
\* carries FirstTicketBonusAwarded next to TicketPurchased
SolContents(l) ==
  LET r == SolRoundsOpened(l)
      open == r > 0 /\ ~SolRoundClosed(l, r)
      sig == Len(l) + 1
      slots == IF l = <<>> THEN {1} ELSE {GetSlot(l), GetSlot(l) + 1}
  IN  UNION {
        IF open
        THEN {SolTx("buy_tickets_sol", r, u, FALSE, slot, sig) : u \in Users}
             \cup {SolTx("consume_randomness", r, u, FALSE, slot, sig) : u \in SolPlayers(l, r)}
        ELSE IF r < MaxRounds
        THEN {SolTx("buy_tickets_sol", r + 1, u, TRUE, slot, sig) : u \in Users}
        ELSE {} : slot \in slots}

IdleSol ==
  [ledger |-> <<>>, pc |-> "idle", fromBlock |-> 0, toBlock |-> 0, before |-> 0,
   allSignatures |-> <<>>, queue |-> <<>>, done |-> <<>>, pages |-> 0, result |-> TRUE]

\* as Reverse, but the sequence is left in the order of the pages
Reverse_Identity(q) == q

\* Array.prototype.reverse
Reverse(q) == [k \in 1..Len(q) |-> q[Len(q) - k + 1]]

\* Array.prototype.filter
RECURSIVE FilterRange(_, _, _, _)
FilterRange(q, l, fromBlock, toBlock) ==
  IF q = <<>> THEN <<>>
  ELSE (IF l[Head(q)].slot >= fromBlock /\ l[Head(q)].slot <= toBlock
        THEN <<Head(q)>> ELSE <<>>) \o FilterRange(Tail(q), l, fromBlock, toBlock)

\* connection.getSignaturesForAddress(programId, {before, limit}): the
\* signatures older than before, newest first, at most limit of them
GetSignaturesForAddress(l, before, limit) ==
  LET newest == IF before = 0 THEN Len(l) ELSE before - 1
      n == Min2(limit, newest)
  IN  [k \in 1..n |-> newest - k + 1]

\* one iteration of the pagination loop on the page it fetched
AfterPage(s, signatures) ==
  LET l == s.ledger
      n == Len(signatures)
      firstBlockOnPage == l[signatures[1]].slot
      lastBlockOnPage == l[signatures[n]].slot
      filtered == FilterRange(signatures, l, s.fromBlock, s.toBlock)
      pushed == [s EXCEPT !.allSignatures = @ \o filtered, !.pages = @ + 1]
      finished(t) == [t EXCEPT !.pc = "apply", !.queue = Reverse(t.allSignatures)]
  IN  IF n = 0 THEN finished([s EXCEPT !.pages = @ + 1])
      ELSE IF firstBlockOnPage < s.fromBlock THEN finished([s EXCEPT !.pages = @ + 1])
      ELSE IF lastBlockOnPage < s.fromBlock THEN finished(pushed)
      ELSE IF n < SolanaPageLimit
      THEN finished([pushed EXCEPT !.before = signatures[n]])
      ELSE [pushed EXCEPT !.before = signatures[n]]

\* the event record a handler stores for the transaction
SolLog(t) ==
  [name |-> t.name, roundId |-> t.roundId, buyer |-> t.buyer, count |-> t.count,
   transactionHash |-> t.signature, index |-> t.index, blockNumber |-> t.slot]

\* roundRepository.create + save: the Round of the transaction, amounts '0'
SaveSolanaRound(d, t) ==
  [d EXCEPT !.roundRepository =
     Insert(@, [roundId |-> t.roundId, prizeAmount |-> 0, prizeClaimed |-> FALSE])]

\* roundRepository.findOne + save: prizeAmount += prize_amount, when found
AccumulateAmounts(d, t) ==
  LET found == {row \in BagToSet(d.roundRepository) : row.roundId = t.roundId}
      round == CHOOSE row \in found : TRUE
  IN  IF found = {} THEN d
      ELSE [d EXCEPT !.roundRepository =
              Insert(@ (-) SetToBag({round}), [round EXCEPT !.prizeAmount = @ + t.count])]

processSolanaTicketPurchasedEvent(d, t, fail) ==
  LET e == SolLog(t)
      d1 == getOrCreateUser(d, t.buyer)
      d2 == SaveTicketPurchase(d1, e)
      d3 == SaveStats(d2, FindStats(d2, t.buyer, t.roundId),
                      PurchaseStats(d2, t.buyer, t.roundId, t.count))
      d4 == IF t.bonus THEN SaveFirstTicketBonus(SaveSolanaRound(d3, t), e) ELSE d3
      d5 == AccumulateAmounts(d4, t)
  IN  IF fail = 1 THEN Throw(d)
      ELSE IF HasTxLog(d1.ticketPurchaseRepository, e.transactionHash, e.index)
      THEN Duplicate(d1)
      ELSE IF fail = 2 THEN Throw(d2)
      ELSE IF fail = 3 THEN Throw(d3)
      ELSE IF fail = 4 THEN Throw(d4)
      ELSE Ok(updateLastSyncedBlock(d5, t.slot))

\* statisticsService.getRoundPlayers: the users of the stored statistics rows
\* of the round
getRoundPlayers(d, r) == {row.user : row \in {x \in d.userRoundStatsRepository : x.roundId = r}}

processSolanaWinnerPickedEvent(d, t, fail) ==
  LET e == SolLog(t)
      d1 == getOrCreateUser(d, t.buyer)
      d2 == SaveStats(d1, FindStats(d1, t.buyer, t.roundId), WinnerStats(d1, t.buyer, t.roundId))
      d3 == createWinNotifications(SaveWinEvent(d2, e, t.buyer), e, t.buyer,
                                   getRoundPlayers(d2, t.roundId))
  IN  IF fail = 1 THEN Throw(d)
      ELSE IF fail = 2 THEN Throw(d1)
      ELSE IF HasTxLog(d2.winEventRepository, e.transactionHash, e.index)
      THEN Duplicate(d2)
      ELSE IF fail = 3 THEN Throw(d2)
      ELSE IF fail = 4 THEN Throw(d3)
      ELSE Ok(updateLastSyncedBlock(d3, t.slot))

\* decodeSolanaInstruction: the switch on decodedIx.name
decodeSolanaInstruction(d, t, fail) ==
  CASE t.name = "buy_tickets_sol" -> processSolanaTicketPurchasedEvent(d, t, fail)
    [] t.name = "consume_randomness" -> processSolanaWinnerPickedEvent(d, t, fail)
    [] OTHER -> Ok(d)

solVars == <<chain, started, listeners, timerOn, liveQueue, bf, failed, dups, sup, hs, fleet,
            raffle, instr, ticks>>

SolInit ==
  /\ Quiet
  /\ sup = Unsupervised
  /\ sol = IdleSol

\* the program takes a transaction
SolSubmit ==
  /\ Len(sol.ledger) < MaxTxs
  /\ \E t \in SolContents(sol.ledger) : sol' = [sol EXCEPT !.ledger = Append(@, t)]
  /\ UNCHANGED <<db, failures>>
  /\ UNCHANGED solVars

\* listenToSolanaEvents / checkSolanaConnectionHealth call
\* fetchSolanaTransactions from the cursor to the current slot
SolStart ==
  /\ sol.pc = "idle"
  /\ LET lastSyncedBlock == getLastSyncedBlock(db)
         currentBlock == GetSlot(sol.ledger)
     IN  /\ lastSyncedBlock = NoRecord \/ lastSyncedBlock < currentBlock
         /\ sol' = [sol EXCEPT
                      !.pc = "page",
                      !.fromBlock = IF lastSyncedBlock = NoRecord THEN 0
                                    ELSE lastSyncedBlock + 1,
                      !.toBlock = currentBlock,
                      !.before = 0, !.allSignatures = <<>>, !.queue = <<>>,
                      !.done = <<>>, !.pages = 0, !.result = TRUE]
  /\ UNCHANGED <<db, failures>>
  /\ UNCHANGED solVars

\* one iteration of the while loop: a page of signatures, or the request
\* fails beyond its retries and the call returns false
SolPage ==
  /\ sol.pc = "page"
  /\ \E answer \in {"ok", "error"} :
       /\ answer = "error" => failures < MaxFailures
       /\ failures' = IF answer = "error" THEN failures + 1 ELSE failures
       /\ sol' = IF answer = "error"
                 THEN [sol EXCEPT !.pc = "idle", !.result = FALSE]
                 ELSE AfterPage(sol, GetSignaturesForAddress(sol.ledger, sol.before,
                                                             SolanaPageLimit))
  /\ UNCHANGED db
  /\ UNCHANGED solVars

\* one iteration of the for loop: getTransaction, then
\* processSolanaTransactionData, whose catch swallows what the handler throws
SolApply ==
  /\ sol.pc = "apply"
  /\ sol.queue # <<>>
  /\ \E fail \in 0..Max(FailPoints), found \in BOOLEAN :
       /\ (fail > 0 \/ ~found) => failures < MaxFailures
       /\ fail > 0 => found
       /\ failures' = IF fail > 0 \/ ~found THEN failures + 1 ELSE failures
       /\ db' = IF found
                THEN decodeSolanaInstruction(db, sol.ledger[Head(sol.queue)], fail).db
                ELSE db
  /\ sol' = [sol EXCEPT !.queue = Tail(@), !.done = Append(@, Head(sol.queue))]
  /\ UNCHANGED solVars

\* after the loop: updateLastSyncedBlock(toBlock) under its own try/catch,
\* return true
SolReturn ==
  /\ sol.pc = "apply"
  /\ sol.queue = <<>>
  /\ \E fail \in 0..1 :
       /\ fail > 0 => failures < MaxFailures
       /\ failures' = IF fail > 0 THEN failures + 1 ELSE failures
       /\ db' = IF fail > 0 THEN db ELSE updateLastSyncedBlock(db, sol.toBlock)
  /\ sol' = [sol EXCEPT !.pc = "idle", !.result = TRUE]
  /\ UNCHANGED solVars

SolNext ==
  \/ SolSubmit
  \/ SolStart
  \/ SolPage
  \/ SolApply
  \/ SolReturn

SpecSolana == SolInit /\ [][SolNext]_vars

\* ------------------------------------------------- handlers at their awaits
\* SpecRace.  The purchase handler as the sequence of its awaited statements,
\* each a statement of its own on the store, for callers that run at the same
\* time: subscription callbacks (setupEventListeners does not await the
\* handler it calls) and backfill loops (a catch-up started by a timer tick
\* can still run when the next tick starts one).  hs is
\*   kind      "evm" | "solana": which handler the chain uses
\*   lived     the logs the subscription has delivered
\*   callers   per caller: the logs it still has to hand to the handler
\*             (queue), the statement its handler is at (pc), what the
\*             handler read (found, prev, round)
\* Two purchases of round 1 by the same buyer are on the chain, the first one
\* opening the round.
Callers == 1..MaxCallers

RaceLog(b, c, bonus) ==
  [name |-> "TicketPurchased", roundId |-> 1, buyer |-> "u1", count |-> c,
   transactionHash |-> b, index |-> 0, blockNumber |-> b, bonus |-> bonus]
RaceChain == <<RaceLog(1, 1, TRUE), RaceLog(2, 2, FALSE)>>
RaceEvents == {RaceChain[i] : i \in DOMAIN RaceChain}

IdleCaller == [queue |-> <<>>, pc |-> "idle", found |-> {}, prev |-> {}, round |-> {}]

\* the logs of the chain above the cursor, oldest first
RECURSIVE Above(_, _)
Above(q, c) ==
  IF q = <<>> THEN <<>>
  ELSE (IF Head(q).blockNumber > c THEN <<Head(q)>> ELSE <<>>) \o Above(Tail(q), c)

\* the handler returned (or caught a duplicate): the caller's loop goes on
\* with its next log
NextLog(c) ==
  IF Tail(c.queue) = <<>>
  THEN [IdleCaller EXCEPT !.pc = "done"]
  ELSE [IdleCaller EXCEPT !.queue = Tail(c.queue), !.pc = "user"]

\* userRoundStatsRepository.save of the row computed from what the handler
\* read: an INSERT when findOne found nothing, rejected by UQ_user_round_stats
\* (23505) when the key is stored by now; an UPDATE of the found row otherwise
StatsFromReads(c) ==
  LET e == Head(c.queue)
  IN  PurchaseStats([EmptyDb EXCEPT !.userRoundStatsRepository = c.found \cup c.prev],
                    e.buyer, e.roundId, e.count)
StatsRejected(d, c) ==
  c.found = {} /\ FindStats(d, Head(c.queue).buyer, Head(c.queue).roundId) # {}
SaveStatsFromReads(d, c) ==
  LET e == Head(c.queue)
  IN  SaveStats(d, FindStats(d, e.buyer, e.roundId), StatsFromReads(c))

\* roundRepository.save of the Round the handler read, amounts added
SaveRoundFromRead(d, c) ==
  LET e == Head(c.queue)
      read == CHOOSE row \in c.round : TRUE
      stored == {row \in BagToSet(d.roundRepository) : row.roundId = e.roundId}
  IN  [d EXCEPT !.roundRepository =
         Insert([row \in BagToSet(@) \ stored |-> @[row]],
                [read EXCEPT !.prizeAmount = @ + e.count])]

RaceInit ==
  /\ chain = <<>> /\ db = EmptyDb /\ started = FALSE /\ listeners = FALSE
  /\ timerOn = FALSE /\ liveQueue = <<>> /\ bf = IdleBf
  /\ failed = {} /\ dups = {} /\ failures = 0
  /\ sup = Unsupervised /\ sol = NoLedger /\ fleet = NoChains /\ raffle = NoContract /\ instr = NoProgram /\ ticks = NoTimer
  /\ \E k \in {"evm", "solana"} :
       hs = [kind |-> k, lived |-> {}, callers |-> [i \in Callers |-> IdleCaller]]

raceVars == <<chain, started, listeners, timerOn, liveQueue, bf, failed, dups, failures,
              sup, sol, fleet, raffle, instr, ticks>>

\* a subscription callback is called with a log (EVM chains)
RaceLive ==
  /\ hs.kind = "evm"
  /\ \E i \in Callers, e \in RaceEvents \ hs.lived :
       /\ hs.callers[i].pc = "idle"
       /\ \A j \in Callers : j < i => hs.callers[j].pc # "idle"
       /\ hs' = [hs EXCEPT !.lived = @ \cup {e},
                           !.callers[i] = [IdleCaller EXCEPT !.queue = <<e>>, !.pc = "user"]]
  /\ UNCHANGED db
  /\ UNCHANGED raceVars

\* a backfill from the cursor fetched its logs and starts its loop
RaceBackfill ==
  /\ \E i \in Callers :
       /\ hs.callers[i].pc = "idle"
       /\ \A j \in Callers : j < i => hs.callers[j].pc # "idle"
       /\ Above(RaceChain, getLastSyncedBlock(db)) # <<>>
       /\ hs' = [hs EXCEPT !.callers[i] =
                   [IdleCaller EXCEPT !.queue = Above(RaceChain, getLastSyncedBlock(db)),
                                      !.pc = "user"]]
  /\ UNCHANGED db
  /\ UNCHANGED raceVars

\* await this.getOrCreateUser(buyer)
HsUser ==
  /\ \E i \in Callers :
       /\ hs.callers[i].pc = "user"
       /\ db' = getOrCreateUser(db, Head(hs.callers[i].queue).buyer)
       /\ hs' = [hs EXCEPT !.callers[i].pc = "savePurchase"]
  /\ UNCHANGED raceVars

\* await this.ticketPurchaseRepository.save(ticketPurchase)
HsSavePurchase ==
  /\ \E i \in Callers :
       LET c == hs.callers[i]
           e == Head(c.queue)
       IN  /\ c.pc = "savePurchase"
           /\ IF HasTxLog(db.ticketPurchaseRepository, e.transactionHash, e.index)
              THEN /\ db' = db
                   /\ hs' = [hs EXCEPT !.callers[i] = NextLog(c)]
              ELSE /\ db' = SaveTicketPurchase(db, e)
                   /\ hs' = [hs EXCEPT !.callers[i].pc = "findStats"]
  /\ UNCHANGED raceVars

\* await this.userRoundStatsRepository.findOne(...)
HsFindStats ==
  /\ \E i \in Callers :
       LET c == hs.callers[i]
           e == Head(c.queue)
       IN  /\ c.pc = "findStats"
           /\ hs' = [hs EXCEPT !.callers[i].found = FindStats(db, e.buyer, e.roundId),
                               !.callers[i].pc = "findPrev"]
  /\ UNCHANGED db
  /\ UNCHANGED raceVars

\* await ...createQueryBuilder()...getOne(): the previous round
HsFindPrev ==
  /\ \E i \in Callers :
       LET c == hs.callers[i]
           e == Head(c.queue)
       IN  /\ c.pc = "findPrev"
           /\ hs' = [hs EXCEPT !.callers[i].prev = PreviousRound(db, e.buyer, e.roundId),
                               !.callers[i].pc = "saveStats"]
  /\ UNCHANGED db
  /\ UNCHANGED raceVars

\* await this.userRoundStatsRepository.save(userRoundStats)
HsSaveStats ==
  /\ \E i \in Callers :
       LET c == hs.callers[i]
       IN  /\ c.pc = "saveStats"
           /\ IF StatsRejected(db, c)
              THEN /\ db' = db
                   /\ hs' = [hs EXCEPT !.callers[i] = NextLog(c)]
              ELSE /\ db' = SaveStatsFromReads(db, c)
                   /\ hs' = [hs EXCEPT !.callers[i].pc =
                               IF hs.kind = "solana" THEN "bonus" ELSE "cursor"]
  /\ UNCHANGED raceVars

\* processSolanaTicketPurchasedEvent: the Round and the FirstTicketBonus of a
\* transaction with a FirstTicketBonusAwarded event
HsBonus ==
  /\ \E i \in Callers :
       LET c == hs.callers[i]
           e == Head(c.queue)
       IN  /\ c.pc = "bonus"
           /\ db' = IF e.bonus
                    THEN SaveFirstTicketBonus(SaveSolanaRound(getOrCreateUser(db, e.buyer), e), e)
                    ELSE db
           /\ hs' = [hs EXCEPT !.callers[i].pc = "findRound"]
  /\ UNCHANGED raceVars

\* await this.roundRepository.findOne(...)
HsFindRound ==
  /\ \E i \in Callers :
       LET c == hs.callers[i]
           e == Head(c.queue)
           stored == {row \in BagToSet(db.roundRepository) : row.roundId = e.roundId}
       IN  /\ c.pc = "findRound"
           /\ hs' = [hs EXCEPT !.callers[i].round = stored,
                               !.callers[i].pc = IF stored = {} THEN "cursor" ELSE "saveRound"]
  /\ UNCHANGED db
  /\ UNCHANGED raceVars

\* await this.roundRepository.save(round)
HsSaveRound ==
  /\ \E i \in Callers :
       LET c == hs.callers[i]
       IN  /\ c.pc = "saveRound"
           /\ db' = SaveRoundFromRead(db, c)
           /\ hs' = [hs EXCEPT !.callers[i].pc = "cursor"]
  /\ UNCHANGED raceVars

\* await this.updateLastSyncedBlock(...), the handler returns
HsCursor ==
  /\ \E i \in Callers :
       LET c == hs.callers[i]
       IN  /\ c.pc = "cursor"
           /\ db' = updateLastSyncedBlock(db, Head(c.queue).blockNumber)
           /\ hs' = [hs EXCEPT !.callers[i] = NextLog(c)]
  /\ UNCHANGED raceVars

RaceNext ==
  \/ RaceLive
  \/ RaceBackfill
  \/ HsUser
  \/ HsSavePurchase
  \/ HsFindStats
  \/ HsFindPrev
  \/ HsSaveStats
  \/ HsBonus
  \/ HsFindRound
  \/ HsSaveRound
  \/ HsCursor

SpecRace == RaceInit /\ [][RaceNext]_vars

\* ------------------------------------------------- several registered chains
\* startListening over Object.entries(configs): one listenTo...Events call per
\* chain, all of them awaited by one Promise.all, and only then
\* startHealthCheck for every chain.  fleet is
\*   pc      "listening": startListening is suspended at the Promise.all;
\*           "supervising": it has started the health checks
\*   chains  per chain name: the node (up, height), the stored cursor, the
\*           listenTo...Events call in flight (call, by, currentFrom,
\*           toBlock), the
\*           supervisor's maps (connectionStates, reconnectAttempts, timer) and
\*           whether a retry scheduled by setTimeout is pending
\* The chains are JSON-RPC EVM chains with one contract each.
ChainNames == {"A", "B"}

\* the chain as addBlockchain registers it, its listen call not yet started
RegisteredChain(u) ==
  [up |-> u, height |-> 0, cursor |-> NoRecord,
   call |-> "height", by |-> "start", currentFrom |-> 0, toBlock |-> 0,
   connectionStates |-> TRUE, reconnectAttempts |-> 0,
   timer |-> FALSE, retry |-> FALSE]

\* the store as the cursor queries of one chain see it
CursorDb(c) == [EmptyDb EXCEPT !.blockchainSyncRepository = c.cursor]

\* the listenTo...Events call of a chain ended, returning or throwing:
\* startListening's promise for the chain settles; reconnectBlockchain goes on
\* to startHealthCheck, or to its catch block
CallEnded(c, threw) ==
  CASE c.by = "start" -> [c EXCEPT !.call = "none"]
    [] threw -> [c EXCEPT !.call = "none", !.connectionStates = FALSE, !.retry = TRUE]
    [] OTHER -> [c EXCEPT !.call = "none", !.timer = TRUE,
                          !.connectionStates = TRUE, !.reconnectAttempts = 0]

\* reconnectBlockchain of one chain, called by the timer callback ("probe") or
\* by the setTimeout of a failed attempt ("retry"), up to its delay: the
\* bound, the counter, cleanupBlockchain clearing the chain's timer
Reconnect(c, caller) ==
  IF c.reconnectAttempts >= maxReconnectAttempts THEN c
  ELSE [c EXCEPT !.reconnectAttempts = @ + 1, !.timer = FALSE,
                 !.call = "delay", !.by = caller]

FleetInit ==
  /\ chain = <<>> /\ db = EmptyDb /\ started = FALSE /\ listeners = FALSE
  /\ timerOn = FALSE /\ liveQueue = <<>> /\ bf = IdleBf
  /\ failed = {} /\ dups = {} /\ failures = 0
  /\ sup = Unsupervised /\ sol = NoLedger /\ hs = NoCallers /\ raffle = NoContract /\ instr = NoProgram /\ ticks = NoTimer
  /\ \E u \in [ChainNames -> BOOLEAN] :
       fleet = [pc |-> "listening", chains |-> [n \in ChainNames |-> RegisteredChain(u[n])]]

fleetVars == <<chain, db, started, listeners, timerOn, liveQueue, bf, failed, dups,
               failures, sup, sol, hs, raffle, instr, ticks>>

\* the node of a chain goes down or comes back
FleetNodeFlip ==
  /\ \E n \in ChainNames : fleet' = [fleet EXCEPT !.chains[n].up = ~@]
  /\ UNCHANGED fleetVars

\* a chain produces a block
FleetMine ==
  /\ \E n \in ChainNames :
       /\ fleet.chains[n].up
       /\ fleet.chains[n].height < MaxFleetHeight
       /\ fleet' = [fleet EXCEPT !.chains[n].height = @ + 1]
  /\ UNCHANGED fleetVars

\* listenToEthereumEvents of a chain: provider.getBlockNumber, then the range
\* to backfill
FleetListen ==
  /\ \E n \in ChainNames :
       LET c == fleet.chains[n]
           range == ListenBackfill(CursorDb(c), c.height)
       IN  /\ c.call = "height"
           /\ fleet' = [fleet EXCEPT !.chains[n] =
                  IF ~c.up THEN CallEnded(c, TRUE)
                  ELSE IF range.pc = "done" THEN CallEnded(c, FALSE)
                  ELSE [c EXCEPT !.call = "backfill",
                                 !.currentFrom = range.fromBlock,
                                 !.toBlock = range.toBlock]]
  /\ UNCHANGED fleetVars

\* one chunk of the chain's fetchHistoricalEvents: the cursor moves to the
\* chunk's end; a request that fails ends the backfill, which returns false
\* to a caller that ignores it; a rate-limited request is retried later
FleetChunk ==
  /\ \E n \in ChainNames, answer \in {"ok", "rateLimited"} :
       LET c == fleet.chains[n]
           currentTo == ChunkEnd(c.currentFrom, c.toBlock)
           moved == [c EXCEPT !.cursor =
                        updateLastSyncedBlock(CursorDb(c), currentTo).blockchainSyncRepository,
                              !.currentFrom = currentTo + 1]
       IN  /\ c.call = "backfill"
           /\ fleet' = [fleet EXCEPT !.chains[n] =
                  IF ~c.up THEN CallEnded(c, FALSE)
                  ELSE IF answer = "rateLimited" THEN c
                  ELSE IF currentTo >= c.toBlock THEN CallEnded(moved, FALSE)
                  ELSE moved]
  /\ UNCHANGED fleetVars

\* the delay of a reconnect attempt is over: addBlockchain registers the chain
\* anew (connected, counter 0), then listenToEthereumEvents is called
FleetReconnect ==
  /\ \E n \in ChainNames :
       /\ fleet.chains[n].call = "delay"
       /\ fleet' = [fleet EXCEPT !.chains[n].connectionStates = TRUE,
                                 !.chains[n].reconnectAttempts = 0,
                                 !.chains[n].call = "height"]
  /\ UNCHANGED fleetVars

\* every promise of listeningPromises has settled: startHealthCheck for each
\* chain of configs
FleetSupervise ==
  /\ fleet.pc = "listening"
  /\ \A n \in ChainNames : fleet.chains[n].call = "none"
  /\ fleet' = [pc |-> "supervising",
               chains |-> [n \in ChainNames |-> [fleet.chains[n] EXCEPT !.timer = TRUE]]]
  /\ UNCHANGED fleetVars

\* the health-timer callback of a chain
FleetProbe ==
  /\ \E n \in ChainNames :
       LET c == fleet.chains[n]
           isHealthy == c.up
           t == [c EXCEPT !.connectionStates = isHealthy]
       IN  /\ c.timer
           /\ c.call = "none"
           /\ fleet' = [fleet EXCEPT !.chains[n] =
                  IF isHealthy THEN [t EXCEPT !.reconnectAttempts = 0]
                  ELSE Reconnect(t, "probe")]
  /\ UNCHANGED fleetVars

\* the setTimeout of a failed reconnect attempt fires
FleetRetry ==
  /\ \E n \in ChainNames :
       LET c == fleet.chains[n]
       IN  /\ c.retry
           /\ c.call = "none"
           /\ fleet' = [fleet EXCEPT !.chains[n] = Reconnect([c EXCEPT !.retry = FALSE], "retry")]
  /\ UNCHANGED fleetVars

FleetNext ==
  \/ FleetNodeFlip
  \/ FleetMine
  \/ FleetListen
  \/ FleetChunk
  \/ FleetReconnect
  \/ FleetSupervise
  \/ FleetProbe
  \/ FleetRetry

SpecChains == FleetInit /\ [][FleetNext]_vars

\* ------------------------------------------------------ the Raffle contract
\* Raffle.sol for one supported token (the native one).  raffle is
\*   now           block.timestamp of the block being built
\*   rounds        _raffles[token].rounds, round ids from 0: rounds[i + 1]
\*                 is the round with id i
\*   activeRounds  the activeRounds array
\*   requests      the VRF requests the coordinator has not answered yet:
\*                 requestId -> roundId (vrfRequestToRoundContext)
\*   nextRequest   the id the coordinator gives the next request
\*   last          the last call: which function, whether it reverted, the
\*                 events it emitted, what it returned
\* A call that reverts leaves the storage as it was.
ZeroAddress == "0x0"
NonExistent == 0
Open == 1
Closed == 2
Completed == 3

\* one Ticket of round.tickets
Ticket(owner, isBonus) == [owner |-> owner, isBonus |-> isBonus]
\* RoundPlayerData of an address that has not bought
NoPlayerData == [ticketsCount |-> 0, hasBonusTicket |-> FALSE]

\* rounds.push(): a Round with every field zero
NewRound ==
  [status |-> NonExistent, startTime |-> 0, endTime |-> 0,
   poolBalance |-> 0, commissionBalance |-> 0, tickets |-> <<>>,
   roundPlayers |-> [u \in Users |-> NoPlayerData], players |-> <<>>,
   winnerAddress |-> ZeroAddress, winnerTicket |-> 0]

\* getTemporaryCloseTime: currentTimestamp - currentTimestamp % 900 + 900
getTemporaryCloseTime(now) == now - (now % RoundSeconds) + RoundSeconds

\* getCurrentRaffleRoundId(token)
getCurrentRaffleRoundId(c) ==
  LET len == Len(c.rounds)
  IN  IF len = 0 THEN [hasOpenRound |-> FALSE, roundId |-> 0]
      ELSE IF c.rounds[len].status # Open \/ c.rounds[len].endTime < c.now
      THEN [hasOpenRound |-> FALSE, roundId |-> 0]
      ELSE [hasOpenRound |-> TRUE, roundId |-> len - 1]

\* as StatusChangeReverts, without the test of the old status
StatusChangeReverts_AnyOld(round, newStatus) == newStatus = NonExistent

\* changeRoundStatus reverts for a Completed round and for the new status
\* NonExistent
StatusChangeReverts(round, newStatus) ==
  newStatus = NonExistent \/ round.status = Completed

\* round.tickets.push, count times
RECURSIVE PushTickets(_, _, _)
PushTickets(tickets, owner, count) ==
  IF count = 0 THEN tickets
  ELSE PushTickets(Append(tickets, Ticket(owner, FALSE)), owner, count - 1)

\* as IsFirstBuyer, but true for the first purchase of each buyer
IsFirstBuyer_PerPlayer(round, sender) == round.roundPlayers[sender].ticketsCount = 0

\* bool isFirstBuyer = round.tickets.length == 0
IsFirstBuyer(round, sender) == Len(round.tickets) = 0

\* buyTicket from the round lookup on, for a call that passed the payment
\* checks: the storage it leaves, or the reason it reverts with
BuyTicketBody(c, sender, count) ==
  LET cur == getCurrentRaffleRoundId(c)
      roundId == IF cur.hasOpenRound THEN cur.roundId ELSE Len(c.rounds)
      opened == [NewRound EXCEPT !.status = Open, !.startTime = c.now,
                                 !.endTime = getTemporaryCloseTime(c.now)]
      round == IF cur.hasOpenRound THEN c.rounds[roundId + 1] ELSE opened
      isNewPlayer == round.roundPlayers[sender].ticketsCount = 0
      cost == TicketPrice * count
      commission == (cost * EntranceFee) \div 100
      isFirstBuyer == IsFirstBuyer(round, sender)
      bought == [round EXCEPT
                   !.players = IF isNewPlayer THEN Append(@, sender) ELSE @,
                   !.commissionBalance = @ + commission,
                   !.poolBalance = @ + (cost - commission),
                   !.tickets = PushTickets(@, sender, count),
                   !.roundPlayers[sender].ticketsCount = @ + count]
      final == IF isFirstBuyer
               THEN [bought EXCEPT
                       !.tickets = Append(@, Ticket(sender, TRUE)),
                       !.roundPlayers[sender].hasBonusTicket = TRUE,
                       !.roundPlayers[sender].ticketsCount = @ + 1]
               ELSE bought
      events == (IF isFirstBuyer THEN <<"FirstTicketBonusAwarded">> ELSE <<>>)
                  \o <<"TicketPurchased">>
  IN  IF cur.hasOpenRound /\ round.status # Open
      THEN [reverted |-> "Round is not open"]
      ELSE IF cur.hasOpenRound /\ ~(round.endTime > c.now)
      THEN [reverted |-> "Round has expired"]
      ELSE [reverted |-> "no", roundId |-> roundId, events |-> events,
            rounds |-> IF cur.hasOpenRound
                       THEN [c.rounds EXCEPT ![roundId + 1] = final]
                       ELSE Append(c.rounds, final),
            activeRounds |-> IF cur.hasOpenRound THEN c.activeRounds
                             ELSE Append(c.activeRounds,
                                         [roundId |-> roundId, vrfRequestTime |-> 0])]

\* as UpkeepCase, but a round counts as expired at its end time
UpkeepCase_AtEnd(c, i) ==
  LET a == c.activeRounds[i]
      round == c.rounds[a.roundId + 1]
  IN  IF round.status = Open /\ round.endTime <= c.now THEN 0
      ELSE IF round.status = Closed /\ c.now >= a.vrfRequestTime + VrfRetryDelay THEN 1
      ELSE -1

\* checkUpkeep: the first active round that is Open and expired (action 0) or
\* Closed with the retry delay over (action 1)
UpkeepCase(c, i) ==
  LET a == c.activeRounds[i]
      round == c.rounds[a.roundId + 1]
  IN  IF round.status = Open /\ round.endTime < c.now THEN 0
      ELSE IF round.status = Closed /\ c.now >= a.vrfRequestTime + VrfRetryDelay THEN 1
      ELSE -1
checkUpkeep(c) ==
  LET due == {i \in DOMAIN c.activeRounds : UpkeepCase(c, i) # -1}
  IN  IF due = {} THEN [upkeepNeeded |-> FALSE, action |-> 0, idx |-> 0]
      ELSE LET i == CHOOSE x \in due : \A y \in due : x <= y
           IN  [upkeepNeeded |-> TRUE, action |-> UpkeepCase(c, i), idx |-> i - 1]

\* activeRounds after fulfillRandomWords removed the round: the last entry
\* takes its place
RemoveActive(active, roundId) ==
  LET hits == {i \in DOMAIN active : active[i].roundId = roundId}
      last == Len(active)
  IN  IF hits = {} THEN active
      ELSE LET i == CHOOSE x \in hits : \A y \in hits : x <= y
           IN  SubSeq([active EXCEPT ![i] = active[last]], 1, last - 1)

\* as PickWinner, but the winner's address is not stored
PickWinner_TicketOnly(round, randomWord) ==
  [round EXCEPT !.winnerTicket = randomWord % Len(round.tickets)]

\* closeRound(token, roundId, round, randomWord) up to the transfers
PickWinner(round, randomWord) ==
  LET indexOfWinner == randomWord % Len(round.tickets)
  IN  [round EXCEPT !.winnerTicket = indexOfWinner,
                    !.winnerAddress = round.tickets[indexOfWinner + 1].owner]

RaffleInit ==
  /\ chain = <<>> /\ db = EmptyDb /\ started = FALSE /\ listeners = FALSE
  /\ timerOn = FALSE /\ liveQueue = <<>> /\ bf = IdleBf
  /\ failed = {} /\ dups = {} /\ failures = 0
  /\ sup = Unsupervised /\ sol = NoLedger /\ hs = NoCallers /\ fleet = NoChains
  /\ raffle = [deployed |-> TRUE, now |-> 1, rounds |-> <<>>, activeRounds |-> <<>>,
               requests |-> <<>>, nextRequest |-> 1,
               last |-> [op |-> "constructor", reverted |-> "no"]]
  /\ instr = NoProgram /\ ticks = NoTimer

raffleVars == <<chain, db, started, listeners, timerOn, liveQueue, bf, failed, dups,
                failures, sup, sol, hs, fleet, instr, ticks>>

\* the tickets of a round that were paid for
BoughtTickets(round) ==
  Cardinality({i \in DOMAIN round.tickets : ~round.tickets[i].isBonus})

\* what is kept of a call that reverted
Reverted(op, reason) == [op |-> op, reverted |-> reason]

\* the next block has a later timestamp
RfTick ==
  /\ raffle.now < MaxRaffleTime
  /\ raffle' = [raffle EXCEPT !.now = @ + 1, !.last = [op |-> "block", reverted |-> "no"]]
  /\ UNCHANGED raffleVars

\* buyTicket(token, count, maxCost) with a sufficient payment
RfBuyTicket ==
  /\ \E sender \in Users, count \in 0..MaxCount :
       LET call == [op |-> "buyTicket", sender |-> sender, count |-> count]
           r == BuyTicketBody(raffle, sender, count)
       IN  IF count = 0
           THEN raffle' = [raffle EXCEPT !.last = Reverted("buyTicket", "InvalidTicketCount")]
           ELSE IF r.reverted # "no"
           THEN raffle' = [raffle EXCEPT !.last = Reverted("buyTicket", r.reverted)]
           ELSE /\ Len(r.rounds) <= MaxRaffleRounds
                /\ \A i \in DOMAIN r.rounds : BoughtTickets(r.rounds[i]) <= MaxTickets
                /\ raffle' = [raffle EXCEPT
                      !.rounds = r.rounds, !.activeRounds = r.activeRounds,
                      !.last = call @@ [reverted |-> "no", roundId |-> r.roundId,
                                        events |-> r.events]]
  /\ UNCHANGED raffleVars

\* the automation node calls checkUpkeep
RfCheckUpkeep ==
  /\ raffle' = [raffle EXCEPT !.last = [op |-> "checkUpkeep", reverted |-> "no",
                                        result |-> checkUpkeep(raffle)]]
  /\ UNCHANGED raffleVars

\* performUpkeep(performData), performData decoding to (action, idx)
RfPerformUpkeep ==
  /\ \E action \in 0..1, idx \in 0..MaxRaffleRounds :
       LET call == [op |-> "performUpkeep", action |-> action, idx |-> idx]
           inRange == idx + 1 \in DOMAIN raffle.activeRounds
           a == raffle.activeRounds[idx + 1]
           round == raffle.rounds[a.roundId + 1]
       IN  IF ~inRange
           THEN raffle' = [raffle EXCEPT !.last = Reverted("performUpkeep", "Panic")]
           ELSE IF action = 0 /\ ~(round.status = Open /\ round.endTime < raffle.now)
           THEN raffle' = [raffle EXCEPT !.last = Reverted("performUpkeep", "Not expired")]
           ELSE IF action = 0 /\ StatusChangeReverts(round, Closed)
           THEN raffle' = [raffle EXCEPT !.last = Reverted("performUpkeep", "completed")]
           ELSE IF action # 0 /\ round.status # Closed
           THEN raffle' = [raffle EXCEPT !.last = Reverted("performUpkeep", "Not closed")]
           ELSE IF action # 0 /\ ~(raffle.now >= a.vrfRequestTime + VrfRetryDelay)
           THEN raffle' = [raffle EXCEPT !.last = Reverted("performUpkeep", "Too soon to retry")]
           ELSE /\ raffle.nextRequest <= MaxRequests
                /\ raffle' = [raffle EXCEPT
                      !.rounds[a.roundId + 1].status = IF action = 0 THEN Closed ELSE @,
                      !.activeRounds[idx + 1].vrfRequestTime = raffle.now,
                      !.requests = Append(@, [requestId |-> raffle.nextRequest,
                                              roundId |-> a.roundId]),
                      !.nextRequest = @ + 1,
                      !.last = call @@ [reverted |-> "no", roundId |-> a.roundId]]
  /\ UNCHANGED raffleVars

\* the VRF coordinator answers a request: fulfillRandomWords(requestId,
\* [randomWord]); the transfers of closeRound can fail, and the coordinator
\* does not call again for a request whose callback reverted
RfFulfill ==
  /\ \E k \in DOMAIN raffle.requests, randomWord \in 0..MaxRandom, paid \in BOOLEAN :
       LET req == raffle.requests[k]
           call == [op |-> "fulfillRandomWords", reverted |-> "no", roundId |-> req.roundId]
           round == raffle.rounds[req.roundId + 1]
           rest == [i \in 1..(Len(raffle.requests) - 1) |->
                      IF i < k THEN raffle.requests[i] ELSE raffle.requests[i + 1]]
           won == PickWinner(round, randomWord)
       IN  IF ~paid
           THEN raffle' = [raffle EXCEPT !.requests = rest,
                                         !.last = [call EXCEPT !.reverted = "TransferFailed"]]
           ELSE IF StatusChangeReverts(won, Completed)
           THEN raffle' = [raffle EXCEPT !.requests = rest,
                                         !.last = [call EXCEPT !.reverted = "completed"]]
           ELSE raffle' = [raffle EXCEPT
                  !.rounds[req.roundId + 1] = [won EXCEPT !.status = Completed],
                  !.activeRounds = RemoveActive(@, req.roundId),
                  !.requests = rest,
                  !.last = call]
  /\ UNCHANGED raffleVars

RaffleNext ==
  \/ RfTick
  \/ RfBuyTicket
  \/ RfCheckUpkeep
  \/ RfPerformUpkeep
  \/ RfFulfill

SpecRaffle == RaffleInit /\ [][RaffleNext]_vars

\* ------------------------------------- transactions of several instructions
\* SpecInstr.  instr is the program's ledger and the fetchSolanaTransactions
\* calls in flight over it:
\*   ledger   the program's transactions, oldest first; a transaction is
\*            its top-level instructions (their names, in order) and the
\*            events of its log messages; its signature is its position
\*   runs     runs[r] is a fetchSolanaTransactions call: "idle", or "apply"
\*            at instruction ix of the transaction at the head of its queue
\*   cron     tukTukService.updateCronJobAfterRequestsCompleted calls, by
\*            the signature of the transaction that caused them
\* The pagination of a call is SpecSolana's subject; here a call has the
\* signatures of its range, oldest first.  The store is db.
Runs == 1..MaxRuns

IxEvent(name, r, u, count) == [name |-> name, roundId |-> r, user |-> u, count |-> count]

IxTx(instructions, events, sig) ==
  [instructions |-> instructions, events |-> events, signature |-> sig,
   slot |-> sig * SlotsPerBlock("solana")]

IxEvents(l) == UNION {{l[i].events[j] : j \in DOMAIN l[i].events} : i \in DOMAIN l}
IxHas(l, name, r) == \E e \in IxEvents(l) : e.name = name /\ e.roundId = r
IxOpened(l) == Cardinality({e \in IxEvents(l) : e.name = "FirstTicketBonusAwarded"})
IxPlayers(l, r) ==
  {e.user : e \in {x \in IxEvents(l) : x.name = "TicketPurchased" /\ x.roundId = r}}
IxPurchaseTxs(l, r) ==
  Cardinality({i \in DOMAIN l : \E j \in DOMAIN l[i].events :
                 l[i].events[j].name = "TicketPurchased" /\ l[i].events[j].roundId = r})
IxWinners(l, r) ==
  {e.user : e \in {x \in IxEvents(l) : x.name = "WinnerPicked" /\ x.roundId = r}}

\* a transaction of k purchase instructions: every instruction logs its own
\* TicketPurchased, the first purchase of a round FirstTicketBonusAwarded too
IxPurchases(r, first, sig) ==
  UNION {
    {IxTx([j \in 1..k |-> "buy_tickets_sol"],
          LET bought == [j \in 1..k |-> IxEvent("TicketPurchased", r, buyer[j], count[j])]
          IN  IF first
              THEN Append(bought, IxEvent("FirstTicketBonusAwarded", r, buyer[1], 0))
              ELSE bought,
          sig) : buyer \in [1..k -> Users], count \in [1..k -> 1..MaxIxCount]}
    : k \in 1..MaxInstr}

\* the transactions the program can take next
IxContents(l) ==
  LET r == IxOpened(l)
      sig == Len(l) + 1
      requested == r > 0 /\ IxHas(l, "AllRequestsCompleted", r)
      closed == r > 0 /\ IxHas(l, "WinnerPicked", r)
  IN  (IF r = 0 \/ (closed /\ r < MaxIxRounds) THEN IxPurchases(r + 1, TRUE, sig) ELSE {})
      \cup (IF r > 0 /\ ~requested
            THEN (IF IxPurchaseTxs(l, r) < MaxIxPurchases
                  THEN IxPurchases(r, FALSE, sig) ELSE {})
                 \cup {IxTx(<<"request_randomness">>,
                            <<IxEvent("AllRequestsCompleted", r, "none", 0)>>, sig)}
            ELSE {})
      \cup (IF requested /\ ~closed
            THEN {IxTx(<<"consume_randomness">>, <<IxEvent("WinnerPicked", r, u, 1)>>, sig)
                    : u \in IxPlayers(l, r)}
            ELSE {})
      \cup UNION {{IxTx(<<"claim_prize_sol">>, <<IxEvent("PrizeClaimed", q, u, 0)>>, sig)
                     : u \in IxWinners(l, q)}
                  : q \in {x \in 1..r : ~IxHas(l, "PrizeClaimed", x)}}

\* events.find(e => e.name === name): the first event of the transaction
\* with that name, if any
Find(events, name) ==
  LET at == {j \in DOMAIN events : events[j].name = name}
  IN  IF at = {} THEN {} ELSE {events[CHOOSE j \in at : \A other \in at : j <= other]}

\* what a handler reads of the transaction for the instruction at
\* instructionIndex: the data of the event it finds, the transaction's
\* signature and slot
IxView(tx, instructionIndex, name, found) ==
  [name |-> name, roundId |-> found.roundId, buyer |-> found.user, count |-> found.count,
   bonus |-> Find(tx.events, "FirstTicketBonusAwarded") # {},
   slot |-> tx.slot, signature |-> tx.signature, index |-> instructionIndex]

\* processAllRequestsCompletedEvent: the trigger service is called, then the
\* cursor written; no row is kept of the transaction
processAllRequestsCompletedEvent(d, tx, fail) ==
  IF Find(tx.events, "AllRequestsCompleted") = {} THEN Ok(d) @@ [invoked |-> FALSE]
  ELSE IF fail = 1 THEN Throw(d) @@ [invoked |-> FALSE]
  ELSE IF fail = 2 THEN Throw(d) @@ [invoked |-> TRUE]
  ELSE Ok(updateLastSyncedBlock(d, tx.slot)) @@ [invoked |-> TRUE]

\* the query of processSolanaPrizeClaimedEvent: the Rounds of round_id not
\* yet claimed that join a win_events row of the round whose winner is user
ClaimableRounds(d, roundId, user) ==
  {round \in BagToSet(d.roundRepository) :
     /\ round.roundId = roundId
     /\ ~round.prizeClaimed
     /\ \E we \in BagToSet(d.winEventRepository) : we.roundId = roundId /\ we.user = user}

\* processSolanaPrizeClaimedEvent; round is the row getOne returns
processSolanaPrizeClaimedEvent(d, tx, round, fail) ==
  LET found == Find(tx.events, "PrizeClaimed")
      claimed == CHOOSE e \in found : TRUE
      saved == [d EXCEPT !.roundRepository =
                  Insert(@ (-) SetToBag({round}), [round EXCEPT !.prizeClaimed = TRUE])]
  IN  IF found = {} THEN Ok(d)
      ELSE IF fail = 1 THEN Throw(d)
      ELSE IF claimed.user \notin d.users THEN Ok(d)
      ELSE IF fail = 2 THEN Throw(d)
      ELSE IF round \notin ClaimableRounds(d, claimed.roundId, claimed.user) THEN Ok(d)
      ELSE IF fail = 3 THEN Throw(d)
      ELSE IF fail = 4 THEN Throw(saved)
      ELSE Ok(updateLastSyncedBlock(saved, tx.slot))

\* the rows getOne can return for the transaction; "none" when the query is
\* not reached or has no row
ClaimChoices(d, tx) ==
  LET found == Find(tx.events, "PrizeClaimed")
      claimed == CHOOSE e \in found : TRUE
      rounds == IF found = {} THEN {}
                ELSE ClaimableRounds(d, claimed.roundId, claimed.user)
  IN  IF rounds = {} THEN {"none"} ELSE rounds

\* decodeSolanaInstruction on the instruction at instructionIndex of tx: the
\* events of the whole transaction are parsed, then the switch on the
\* instruction's name
decodeInstruction(d, tx, instructionIndex, isHistorical, round, fail) ==
  LET name == tx.instructions[instructionIndex + 1]
      bought == Find(tx.events, "TicketPurchased")
      won == Find(tx.events, "WinnerPicked")
      quiet(res) == res @@ [invoked |-> FALSE]
  IN  CASE name = "buy_tickets_sol" ->
             IF bought = {} THEN quiet(Ok(d))
             ELSE quiet(processSolanaTicketPurchasedEvent(
                          d, IxView(tx, instructionIndex, name, CHOOSE e \in bought : TRUE),
                          fail))
        [] name = "consume_randomness" ->
             IF won = {} THEN quiet(Ok(d))
             ELSE quiet(processSolanaWinnerPickedEvent(
                          d, IxView(tx, instructionIndex, name, CHOOSE e \in won : TRUE),
                          fail))
        [] name = "request_randomness" ->
             IF isHistorical THEN quiet(Ok(d))
             ELSE processAllRequestsCompletedEvent(d, tx, fail)
        [] name = "claim_prize_sol" ->
             quiet(processSolanaPrizeClaimedEvent(d, tx, round, fail))
        [] OTHER -> quiet(Ok(d))

IdleRun == [pc |-> "idle", isHistorical |-> FALSE, toBlock |-> 0, queue |-> <<>>, ix |-> 0]

\* the signatures of the range, oldest first
SignaturesIn(l, fromBlock, toBlock) ==
  SelectSeq([i \in DOMAIN l |-> i], LAMBDA i : l[i].slot >= fromBlock /\ l[i].slot <= toBlock)

StartRun(fromBlock, toBlock, isHistorical) ==
  [pc |-> "apply", isHistorical |-> isHistorical, toBlock |-> toBlock,
   queue |-> SignaturesIn(instr.ledger, fromBlock, toBlock), ix |-> 0]

InstrInit ==
  /\ chain = <<>> /\ db = EmptyDb /\ started = FALSE /\ listeners = FALSE
  /\ timerOn = FALSE /\ liveQueue = <<>> /\ bf = IdleBf
  /\ failed = {} /\ dups = {} /\ failures = 0
  /\ sup = Unsupervised /\ sol = NoLedger /\ hs = NoCallers /\ fleet = NoChains
  /\ raffle = NoContract /\ ticks = NoTimer
  /\ instr = [pc |-> "on", ledger |-> <<>>, runs |-> [r \in Runs |-> IdleRun],
              cron |-> EmptyBag]

instrVars == <<chain, started, listeners, timerOn, liveQueue, bf, failed, dups, sup, sol,
              hs, fleet, raffle, ticks>>

\* the program takes a transaction
IxSubmit ==
  /\ Len(instr.ledger) < MaxIxTxs
  /\ \E tx \in IxContents(instr.ledger) : instr' = [instr EXCEPT !.ledger = Append(@, tx)]
  /\ UNCHANGED <<db, failures>>
  /\ UNCHANGED instrVars

\* a call of fetchSolanaTransactions starts.  listenToSolanaEvents, at start
\* and after a reconnect, calls it from 0 and historical when there is no
\* cursor, else from the cursor when the cursor is behind the slot.
\* checkSolanaConnectionHealth, on a tick of the interval timer, calls it
\* from the cursor when the cursor is more than the threshold behind.
\* Neither looks whether an earlier call is still running.
IxStart(r) ==
  /\ instr.runs[r].pc = "idle"
  /\ LET lastSyncedBlock == getLastSyncedBlock(db)
         currentBlock == IF instr.ledger = <<>> THEN 0
                         ELSE instr.ledger[Len(instr.ledger)].slot
         listen == lastSyncedBlock = NoRecord \/ lastSyncedBlock < currentBlock
         probe == /\ lastSyncedBlock # NoRecord
                  /\ currentBlock - lastSyncedBlock > SyncThreshold("solana")
     IN  /\ listen \/ probe
         /\ instr' = [instr EXCEPT !.runs[r] =
                        IF lastSyncedBlock = NoRecord THEN StartRun(0, currentBlock, TRUE)
                        ELSE StartRun(lastSyncedBlock + 1, currentBlock, FALSE)]
  /\ UNCHANGED <<db, failures>>
  /\ UNCHANGED instrVars

\* the run's position after the instruction it is at
AfterInstruction(run, tx) ==
  IF run.ix + 1 < Len(tx.instructions) THEN [run EXCEPT !.ix = @ + 1]
  ELSE [run EXCEPT !.queue = Tail(@), !.ix = 0]

\* one iteration of the instruction loop of processSolanaTransactionData:
\* decodeSolanaInstruction under the loop's try/catch
IxApply(r) ==
  /\ instr.runs[r].pc = "apply"
  /\ instr.runs[r].queue # <<>>
  /\ LET run == instr.runs[r]
         tx == instr.ledger[Head(run.queue)]
     IN  \E fail \in 0..Max(FailPoints), round \in ClaimChoices(db, tx) :
           LET res == decodeInstruction(db, tx, run.ix, run.isHistorical, round, fail)
           IN  /\ fail > 0 => failures < MaxFailures
               /\ failures' = IF fail > 0 THEN failures + 1 ELSE failures
               /\ db' = res.db
               /\ instr' = [instr EXCEPT
                              !.runs[r] = AfterInstruction(run, tx),
                              !.cron = IF res.invoked
                                       THEN @ (+) SetToBag({tx.signature}) ELSE @]
  /\ UNCHANGED instrVars

\* after the loop over the signatures: updateLastSyncedBlock(toBlock)
IxReturn(r) ==
  /\ instr.runs[r].pc = "apply"
  /\ instr.runs[r].queue = <<>>
  /\ db' = updateLastSyncedBlock(db, instr.runs[r].toBlock)
  /\ instr' = [instr EXCEPT !.runs[r] = IdleRun]
  /\ UNCHANGED failures
  /\ UNCHANGED instrVars

InstrNext ==
  \/ IxSubmit
  \/ \E r \in Runs : IxStart(r)
  \/ \E r \in Runs : IxApply(r)
  \/ \E r \in Runs : IxReturn(r)

SpecInstr == InstrInit /\ [][InstrNext]_vars

\* -------------------------------------------- the interval timer's callbacks
\* SpecTicks.  SpecConn follows one callback of the health-check timer from
\* its tick to its end; here the callbacks setInterval starts are followed
\* side by side.  ticks is the supervised chain as the callbacks see it:
\*   kind, up, height, cursor   as in SpecConn
\*   timer                      healthCheckTimers[name] is set
\*   connectionStates, reconnectAttempts
\*   callbacks                  callbacks[i] is a callback of the timer:
\*                              "idle", "height" (checkConnectionHealth at
\*                              its height request), "backfill" (at the
\*                              catch-up it awaits), "reconnect" (in
\*                              reconnectBlockchain after cleanupBlockchain),
\*                              "retry" (the setTimeout of a failed reconnect)
Ticks == 1..MaxTicks

IdleCallback == [pc |-> "idle", fromBlock |-> 0, toBlock |-> 0]

TicksInit ==
  /\ chain = <<>> /\ db = EmptyDb /\ started = FALSE /\ listeners = FALSE
  /\ timerOn = FALSE /\ liveQueue = <<>> /\ bf = IdleBf
  /\ failed = {} /\ dups = {} /\ failures = 0
  /\ sup = Unsupervised /\ sol = NoLedger /\ hs = NoCallers /\ fleet = NoChains
  /\ raffle = NoContract /\ instr = NoProgram
  /\ \E kind \in {"ws", "http", "solana"} :
       ticks = [pc |-> "on", kind |-> kind, up |-> TRUE,
                height |-> SlotsPerBlock(kind), cursor |-> SlotsPerBlock(kind),
                timer |-> TRUE, connectionStates |-> TRUE, reconnectAttempts |-> 0,
                callbacks |-> [i \in Ticks |-> IdleCallback]]

ticksVars == <<chain, db, started, listeners, timerOn, liveQueue, bf, failed, dups,
              failures, sup, sol, hs, fleet, raffle, instr>>

\* the node stops or resumes answering
TkNodeFlip ==
  /\ ticks' = [ticks EXCEPT !.up = ~@]
  /\ UNCHANGED ticksVars

\* the chain produces a block; a log in it reaches the subscription of a
\* WebSocket chain, whose handler stores the block as cursor
TkMine ==
  /\ \E log \in BOOLEAN :
       LET next == ticks.height + SlotsPerBlock(ticks.kind)
       IN  /\ next <= MaxTickHeight * SlotsPerBlock(ticks.kind)
           /\ log => ticks.kind = "ws" /\ ticks.up /\ ticks.timer
           /\ ticks' = [ticks EXCEPT !.height = next,
                                     !.cursor = IF log THEN next ELSE @]
  /\ UNCHANGED ticksVars

\* reconnectBlockchain up to its first await, for callback i: the attempt
\* bound, the counter, and cleanupBlockchain clearing the timer
TkReconnectStart(t, i) ==
  LET currentAttempts == t.reconnectAttempts
  IN  IF currentAttempts >= maxReconnectAttempts
      THEN [t EXCEPT !.callbacks[i] = IdleCallback]
      ELSE [t EXCEPT !.reconnectAttempts = currentAttempts + 1,
                     !.timer = FALSE,
                     !.callbacks[i] = [IdleCallback EXCEPT !.pc = "reconnect"]]

\* the callback after checkConnectionHealth returned isHealthy
TkAfterProbe(t, i, isHealthy) ==
  LET u == [t EXCEPT !.connectionStates = isHealthy]
  IN  IF isHealthy
      THEN [u EXCEPT !.reconnectAttempts = 0, !.callbacks[i] = IdleCallback]
      ELSE TkReconnectStart(u, i)

\* as Lagging, but a cursor exactly the threshold behind counts as lagging
Lagging_AtThreshold(kind, lastSyncedBlock, blocksBehind) ==
  lastSyncedBlock # NoRecord /\ blocksBehind >= SyncThreshold(kind)

\* if (lastSyncedBlock !== null) ... if (blocksBehind > threshold)
Lagging(kind, lastSyncedBlock, blocksBehind) ==
  lastSyncedBlock # NoRecord /\ blocksBehind > SyncThreshold(kind)

\* setInterval fires: the callback starts and checkConnectionHealth asks for
\* the height.  The timer does not look at the callbacks it started before.
TkTick(i) ==
  /\ ticks.timer
  /\ ticks.callbacks[i].pc = "idle"
  /\ ticks' = [ticks EXCEPT !.callbacks[i].pc = "height"]
  /\ UNCHANGED ticksVars

\* getBlockNumber / getSlot returned or threw; the lag decides on a catch-up
TkHeight(i) ==
  /\ ticks.callbacks[i].pc = "height"
  /\ LET blockNumber == ticks.height
         lastSyncedBlock == ticks.cursor
         blocksBehind == blockNumber - lastSyncedBlock
     IN  IF ~ticks.up
         THEN ticks' = TkAfterProbe(ticks, i, FALSE)
         ELSE IF ticks.kind # "http" /\ Lagging(ticks.kind, lastSyncedBlock, blocksBehind)
         THEN ticks' = [ticks EXCEPT !.callbacks[i] =
                          [pc |-> "backfill", fromBlock |-> lastSyncedBlock + 1,
                           toBlock |-> blockNumber]]
         ELSE ticks' = TkAfterProbe(ticks, i, TRUE)
  /\ UNCHANGED ticksVars

\* fetchHistoricalEvents / fetchSolanaTransactions awaited by the callback
\* returned: true with the cursor at toBlock, or false
TkBackfill(i) ==
  /\ ticks.callbacks[i].pc = "backfill"
  /\ \E result \in BOOLEAN :
       /\ result => ticks.up
       /\ ticks' = TkAfterProbe(
                     [ticks EXCEPT !.cursor = IF result THEN ticks.callbacks[i].toBlock
                                              ELSE @],
                     i, ProbeResult(ticks.kind, result))
  /\ UNCHANGED ticksVars

\* the rest of reconnectBlockchain: addBlockchain, listenTo...Events from the
\* cursor to the height, startHealthCheck; or the catch block, which
\* schedules the next attempt
TkReconnect(i) ==
  /\ ticks.callbacks[i].pc = "reconnect"
  /\ ticks' = IF ticks.up
              THEN [ticks EXCEPT !.cursor = ticks.height,
                                 !.timer = TRUE,
                                 !.connectionStates = TRUE,
                                 !.reconnectAttempts = 0,
                                 !.callbacks[i] = IdleCallback]
              ELSE [ticks EXCEPT !.connectionStates = FALSE,
                                 !.callbacks[i].pc = "retry"]
  /\ UNCHANGED ticksVars

\* setTimeout(() => this.reconnectBlockchain(name)) elapsed
TkRetry(i) ==
  /\ ticks.callbacks[i].pc = "retry"
  /\ ticks' = TkReconnectStart(ticks, i)
  /\ UNCHANGED ticksVars

TicksNext ==
  \/ TkNodeFlip
  \/ TkMine
  \/ \E i \in Ticks : TkTick(i)
  \/ \E i \in Ticks : TkHeight(i)
  \/ \E i \in Ticks : TkBackfill(i)
  \/ \E i \in Ticks : TkReconnect(i)
  \/ \E i \in Ticks : TkRetry(i)

SpecTicks == TicksInit /\ [][TicksNext]_vars

\* ------------------------------------------------------------------ claims
\* the log a step delivers to the applier, from the subscription or the backfill
LiveStep == liveQueue # <<>> /\ liveQueue' = Tail(liveQueue) /\ chain' = chain
BfStep == bf.pc = "apply" /\ bf.events # <<>> /\ bf' = [bf EXCEPT !.events = Tail(@)]
Delivers(e) ==
  \/ LiveStep /\ e = Head(liveQueue)
  \/ BfStep /\ e = Head(bf.events)

\* the event record of a log is persisted
Applied(d, e) ==
  CASE e.name = "TicketPurchased" ->
         HasTxLog(d.ticketPurchaseRepository, e.transactionHash, e.index)
    [] e.name = "WinnerPicked" ->
         HasTxLog(d.winEventRepository, e.transactionHash, e.index)
    [] e.name = "FirstTicketBonusAwarded" ->
         HasTxLog(d.firstTicketBonusRepository, e.transactionHash, e.index)
    [] OTHER -> TRUE

StatsField(d, u, r, field) ==
  LET found == FindStats(d, u, r)
  IN  IF found = {} THEN 0 ELSE (CHOOSE row \in found : TRUE)[field]

\* C1: a TicketPurchased log delivered again, when its row is already stored,
\* leaves ticket_purchases and user_round_stats as they are; a first delivery
\* adds at most one row and at most the log's count to the buyer's ticketCount;
\* no (transactionHash, logIndex) ever has two rows.
C1_PurchaseStep ==
  \A e \in LogSet :
    (Delivers(e) /\ e.name = "TicketPurchased") =>
      IF Applied(db, e)
      THEN /\ db'.ticketPurchaseRepository = db.ticketPurchaseRepository
           /\ db'.userRoundStatsRepository = db.userRoundStatsRepository
      ELSE /\ RowsOf(db'.ticketPurchaseRepository, e.transactionHash, e.index) <= 1
           /\ StatsField(db', e.buyer, e.roundId, "ticketCount")
                \in {StatsField(db, e.buyer, e.roundId, "ticketCount"),
                     StatsField(db, e.buyer, e.roundId, "ticketCount") + e.count}
C1_PurchaseAppliedOnce ==
  /\ [](\A e \in LogSet :
          RowsOf(db.ticketPurchaseRepository, e.transactionHash, e.index) <= 1)
  /\ [][C1_PurchaseStep]_vars

\* a TicketPurchased log was delivered a second time and its count is in the
\* buyer's ticketCount once
C1_Witness ==
  \E e \in dups :
    /\ e.name = "TicketPurchased"
    /\ RowsOf(db.ticketPurchaseRepository, e.transactionHash, e.index) = 1
    /\ StatsField(db, e.buyer, e.roundId, "ticketCount") >= e.count

\* C2: a WinnerPicked log delivered again, when its WinEvent row is already
\* stored, leaves win_events and user_round_stats as they are.
C2_WinnerStep ==
  \A e \in LogSet :
    (Delivers(e) /\ e.name = "WinnerPicked" /\ Applied(db, e)) =>
      /\ db'.winEventRepository = db.winEventRepository
      /\ db'.userRoundStatsRepository = db.userRoundStatsRepository
C2_WinnerRedeliveryNoop == [][C2_WinnerStep]_vars

\* C3: the rounds table holds at most one row for each roundId.
C3_OneRoundRow ==
  \A row \in BagToSet(db.roundRepository) : CopiesIn(row, db.roundRepository) <= 1

\* C4: no step lowers the stored cursor.
C4_CursorStep == db'.blockchainSyncRepository >= db.blockchainSyncRepository
C4_CursorMonotonic == [][C4_CursorStep]_vars

\* C5: every log at or below the stored cursor has its event record stored.
C5_CursorCoversApplied ==
  \A e \in LogSet :
    e.blockNumber <= db.blockchainSyncRepository => Applied(db, e)

\* C6: the cursor stays below every log whose application threw an error other
\* than a duplicate key and has not succeeded since.
C6_CursorBelowFailed ==
  \A e \in failed : db.blockchainSyncRepository < e.blockNumber

\* C7: a backfill whose span exceeds maxBlockRange completes chunks that start
\* at fromBlock, follow one another without gap or overlap in ascending order,
\* are full-sized except possibly the last, never pass toBlock, and end at
\* toBlock once the call has returned true.
ChunkSize(c) == c[2] - c[1] + 1
Chunked == bf.pc # "idle" /\ bf.toBlock - bf.fromBlock + 1 > maxBlockRange
C7_ChunksCoverRange ==
  Chunked =>
    LET cs == bf.chunks
        n == Len(cs)
        next == IF n = 0 THEN bf.fromBlock ELSE cs[n][2] + 1
    IN  /\ \A i \in 1..n : ChunkSize(cs[i]) >= 1 /\ ChunkSize(cs[i]) <= maxBlockRange
        /\ n >= 1 => cs[1][1] = bf.fromBlock /\ cs[n][2] <= bf.toBlock
        /\ \A i \in 1..(n - 1) :
             cs[i + 1][1] = cs[i][2] + 1 /\ ChunkSize(cs[i]) = maxBlockRange
        /\ bf.pc \in {"fetch", "apply"} =>
             /\ bf.currentFrom = next
             /\ bf.currentTo >= bf.currentFrom /\ bf.currentTo <= bf.toBlock
             /\ bf.currentTo - bf.currentFrom + 1 <= maxBlockRange
        /\ (bf.pc = "done" /\ bf.result) => n >= 2 /\ cs[n][2] = bf.toBlock

\* a chunked backfill has returned true after a full chunk and a shorter last one
C7_Witness ==
  /\ Chunked /\ bf.pc = "done" /\ bf.result
  /\ Len(bf.chunks) >= 2
  /\ ChunkSize(bf.chunks[Len(bf.chunks)]) < maxBlockRange

\* C8: between two chunks of a backfill the stored cursor is the end of the
\* chunk that has just been completed.
C8_CursorIsChunkEnd ==
  bf.pc = "delay" => db.blockchainSyncRepository = bf.currentTo

\* C9: a rate-limited fetch is attempted at most maxRetries times, waiting
\* baseDelay, 2*baseDelay, ... between attempts; when the last attempt is
\* rate-limited too the call has returned false without completing that chunk,
\* and a call that has returned completes no further chunk.
C9_RetryState ==
  /\ bf.attempt \in 1..maxRetries
  /\ Len(bf.delays) = bf.attempt - 1
  /\ \A i \in DOMAIN bf.delays :
       bf.delays[i] = IF i = 1 THEN baseDelay ELSE 2 * bf.delays[i - 1]
  /\ bf.error = "rateLimit" =>
       /\ bf.pc = "done" /\ ~bf.result
       /\ bf.attempt = maxRetries
       /\ \A i \in DOMAIN bf.chunks : bf.chunks[i][2] < bf.currentFrom
C9_ReturnedStep ==
  bf.pc = "done" => bf'.chunks = bf.chunks \/ bf'.chunks = <<>>
C9_RateLimitBounded == []C9_RetryState /\ [][C9_ReturnedStep]_vars

\* the second chunk of a backfill failed after three rate-limited attempts
C9_Witness ==
  /\ bf.error = "rateLimit"
  /\ Len(bf.chunks) >= 1
  /\ bf.delays = <<baseDelay, 2 * baseDelay>>

\* C10: the for loop of a chunk goes on with the next event whatever the
\* application of an event ended in, so every log of a completed chunk is
\* either stored or recorded as failed.
LogsOfChunk(c) == {e \in LogSet : e.blockNumber >= c[1] /\ e.blockNumber <= c[2]}
C10_ChunkComplete ==
  \A i \in DOMAIN bf.chunks :
    \A e \in LogsOfChunk(bf.chunks[i]) : Applied(db, e) \/ e \in failed
C10_ItemStep ==
  (bf.pc = "apply" /\ bf.events # <<>> /\ bf' # bf) =>
    bf' = [bf EXCEPT !.events = Tail(@)]
C10_ItemFailureDoesNotAbort == []C10_ChunkComplete /\ [][C10_ItemStep]_vars

\* the first backfill completed a chunk in which one log failed and a later
\* log of the same chunk was stored
C10_Witness ==
  /\ bf.caller = "listen" /\ bf.fromBlock = 1 /\ bf.toBlock = Height
  /\ bf.result /\ dups = {}
  /\ \E i \in DOMAIN bf.chunks :
       \E e1, e2 \in LogsOfChunk(bf.chunks[i]) :
         /\ e1 \in failed /\ ~Applied(db, e1)
         /\ <<e1.blockNumber, e1.index>> # <<e2.blockNumber, e2.index>>
         /\ \/ e1.blockNumber < e2.blockNumber
            \/ e1.blockNumber = e2.blockNumber /\ e1.index < e2.index
         /\ Applied(db, e2)

\* ---------------------------------------------------- claims of SpecConn
\* a step in which a reconnectBlockchain call passes its bound and starts an
\* attempt; the steps of the health probe
AttemptStarts == \E p \in Procs : sup.rc[p].pc = "idle" /\ sup'.rc[p].pc = "destroy"
ForceStep == sup'.forces = sup.forces + 1
ProbeHeightStep == sup.probe.pc = "height" /\ sup'.probe.pc # "height"
ProbeCatchUpStep == sup.probe.pc = "backfill" /\ sup'.probe.pc = "idle"
ProviderAnswers == sup.up /\ ~sup.adapter.destroyed
ListenerSets == (IF Delivering(sup.adapter) THEN 1 ELSE 0) + sup.orphans

\* C11: once maxReconnectAttempts reconnect attempts have failed in a row, a
\* further attempt is started only by a force-reconnect request.
C11_Step ==
  (sup.consecFailed >= maxReconnectAttempts /\ AttemptStarts) => ForceStep
C11_NoAttemptAfterBound == [][C11_Step]_vars

\* C12: the delay an attempt waits before it recreates the connection is
\* reconnectDelay times the attempt's number.
C12_DelayIsBaseTimesAttempt ==
  \A p \in Procs :
    (sup.rc[p].trigger = "reconnect" /\ sup.rc[p].pc \in {"delay", "height", "backfill"}) =>
      sup.rc[p].delayMs = reconnectDelay * sup.rc[p].attempt

\* C13: a force-reconnect request, whatever the state of the chain, starts an
\* attempt, and that attempt is number 1 (the counter was reset to 0).
C13_Step == ForceStep => (AttemptStarts /\ sup'.reconnectAttempts = 1)
C13_ForceResets == [][C13_Step]_vars

\* C14: at most one adapter of the chain has listeners attached and delivers.
C14_OneListenerSet == ListenerSets <= 1

\* C15: a probe whose height request is answered, with stored cursor c and
\* height h, starts a catch-up of exactly [c+1, h] when h - c exceeds the
\* configured threshold and otherwise ends healthy without a catch-up.
C15_Step ==
  (ProbeHeightStep /\ ProviderAnswers /\ sup.cursor # NoRecord) =>
    IF sup.height - sup.cursor > syncThresholdBlocks
    THEN sup'.probe = [pc |-> "backfill", fromBlock |-> sup.cursor + 1,
                       toBlock |-> sup.height]
    ELSE sup'.probe.pc = "idle" /\ sup'.connectionStates
C15_ProbeThreshold == [][C15_Step]_vars

\* C15 as amended: the rule holds with the configured threshold on a WebSocket
\* EVM chain and with ten times that threshold on the non-EVM chain; the probe
\* of an HTTP EVM chain never starts a catch-up; a probe that starts none ends
\* healthy, and a WebSocket EVM probe that started one ends with the result of
\* the catch-up.
C15_AmendedStep ==
  /\ (ProbeHeightStep /\ ProviderAnswers /\ sup.cursor # NoRecord) =>
       LET threshold == IF sup.kind = "solana"
                        THEN solanaThresholdFactor * syncThresholdBlocks
                        ELSE syncThresholdBlocks
       IN  IF sup.kind # "http" /\ sup.height - sup.cursor > threshold
           THEN sup'.probe = [pc |-> "backfill", fromBlock |-> sup.cursor + 1,
                              toBlock |-> sup.height]
           ELSE sup'.probe.pc = "idle" /\ sup'.connectionStates
  /\ (ProbeCatchUpStep /\ sup.kind = "ws") =>
       sup'.connectionStates = (sup'.lastProbe = "caughtUp")
C15_ProbeThresholdByKind == [][C15_AmendedStep]_vars

\* a WebSocket EVM probe has started a catch-up over more than the threshold
C15_Witness ==
  /\ sup.kind = "ws" /\ sup.probe.pc = "backfill"
  /\ sup.probe.fromBlock >= 2
  /\ sup.probe.toBlock - sup.probe.fromBlock + 1 > syncThresholdBlocks

\* C16: the probe that finds the cursor lagging and runs a catch-up leaves the
\* adapter as it is and counts no reconnect attempt.
C16_Step ==
  (ProbeCatchUpStep \/ (ProbeHeightStep /\ sup'.probe.pc = "backfill")) =>
    /\ sup'.adapter = sup.adapter
    /\ sup'.rc = sup.rc
    /\ sup'.reconnectAttempts <= sup.reconnectAttempts
C16_CatchUpWithoutReconnect == [][C16_Step]_vars

\* C16 as amended: starting the catch-up changes neither the adapter nor the
\* counter; when the catch-up returns true (on the non-EVM chain: whatever it
\* returns) the adapter stays, no attempt is started and the counter is 0;
\* when the catch-up of an EVM chain returns false the timer callback calls
\* reconnectBlockchain, which counts an attempt unless the bound is reached.
C16_AmendedStep ==
  /\ (ProbeHeightStep /\ sup'.probe.pc = "backfill") =>
       /\ sup'.adapter = sup.adapter /\ sup'.rc = sup.rc
       /\ sup'.reconnectAttempts = sup.reconnectAttempts
  /\ (ProbeCatchUpStep /\ (sup.kind = "solana" \/ sup'.lastProbe = "caughtUp")) =>
       /\ sup'.adapter = sup.adapter /\ sup'.rc = sup.rc
       /\ sup'.reconnectAttempts = 0
  /\ (ProbeCatchUpStep /\ sup.kind # "solana" /\ sup'.lastProbe = "catchUpFailed") =>
       IF sup.reconnectAttempts >= maxReconnectAttempts
       THEN sup'.rc = sup.rc /\ sup'.reconnectAttempts = sup.reconnectAttempts
       ELSE AttemptStarts /\ sup'.reconnectAttempts = sup.reconnectAttempts + 1
C16_CatchUpReconnectsOnlyOnFailure == [][C16_AmendedStep]_vars

\* an EVM probe caught up and the subscribed adapter is still the one in use
C16_Witness ==
  /\ sup.kind = "ws" /\ sup.lastProbe = "caughtUp"
  /\ sup.probe.pc = "idle" /\ sup.reconnectAttempts = 0
  /\ \A p \in Procs : sup.rc[p].pc = "idle"
  /\ Delivering(sup.adapter) /\ sup.timer

\* C17: when the catch-up a probe started returns false, the probe reports the
\* chain unhealthy.
C17_Step ==
  (ProbeCatchUpStep /\ sup'.lastProbe = "catchUpFailed") => ~sup'.connectionStates
C17_FailedCatchUpFailsProbe == [][C17_Step]_vars

\* the WinnerPicked logs whose WinEvent row for user u is stored
WinsApplied(d, u) ==
  {<<row.transactionHash, row.logIndex>> :
     row \in {x \in BagToSet(d.winEventRepository) : x.user = u}}

\* the user_round_stats row of u with the highest roundId
LatestStats(d, u) ==
  LET S == {row \in d.userRoundStatsRepository : row.user = u}
  IN  {row \in S : \A other \in S : other.roundId <= row.roundId}

\* C19: the totalWins of a user's latest-round row equals the number of
\* distinct wins applied for that user, whatever the order in which the
\* purchases and wins of different rounds were applied.
C19_TotalWinsIsWinCount ==
  \A u \in Users :
    \A row \in LatestStats(db, u) :
      row.totalWins = Cardinality(WinsApplied(db, u))

\* the rounds below r for which u has a user_round_stats row
EarlierRounds(d, u, r) ==
  {row.roundId : row \in {x \in d.userRoundStatsRepository : x.user = u /\ x.roundId < r}}

\* a step in which the handler of a TicketPurchased log saved the buyer's row
PurchaseSaved(e) ==
  /\ Delivers(e)
  /\ e.name = "TicketPurchased"
  /\ FindStats(db', e.buyer, e.roundId) # FindStats(db, e.buyer, e.roundId)

\* C18: when a purchase of round r is applied, the buyer's row of round r is
\* consecutive exactly when the buyer's most recent earlier round is r - 1;
\* its consecutiveRounds is then the prior row's consecutiveRounds + 1 when
\* the prior row is consecutive and 1 when it is not, and it is 0 when the
\* most recent earlier round is not r - 1 or does not exist.
C18_Step ==
  \A e \in LogSet :
    PurchaseSaved(e) =>
      LET u == e.buyer
          r == e.roundId
          earlier == EarlierRounds(db, u, r)
          follows == earlier # {} /\ Max(earlier) = r - 1
          prior == CHOOSE row \in FindStats(db, u, r - 1) : TRUE
      IN  \A row \in FindStats(db', u, r) :
            /\ row.isConsecutive <=> follows
            /\ row.consecutiveRounds =
                 IF follows
                 THEN IF prior.isConsecutive THEN prior.consecutiveRounds + 1 ELSE 1
                 ELSE 0
C18_StreakRule == [][C18_Step]_vars

\* a user played three rounds in a row: the row of the third round continues
\* the streak of the second
C18_Witness ==
  \E row \in db.userRoundStatsRepository :
    /\ row.isConsecutive /\ row.consecutiveRounds = 2 /\ row.ticketCount > 0
    /\ \E prior \in FindStats(db, row.user, row.roundId - 1) :
         prior.isConsecutive /\ prior.consecutiveRounds = 1

\* the order in which the running backfill goes through its transactions
SolOrder == sol.done \o sol.queue

\* C20: a non-EVM backfill applies what it fetched oldest first, the reverse
\* of the newest-first order of the pages taken together, so the transaction
\* with the FirstTicketBonusAwarded that creates a Round comes before every
\* other purchase of that round in the batch.
C20_OldestFirst ==
  sol.pc = "apply" =>
    /\ \A i, j \in DOMAIN SolOrder : i < j => SolOrder[i] < SolOrder[j]
    /\ \A k \in DOMAIN sol.allSignatures :
         SolOrder[Len(SolOrder) - k + 1] = sol.allSignatures[k]
    /\ Len(SolOrder) = Len(sol.allSignatures)
    /\ \A i, j \in DOMAIN SolOrder :
         LET opening == sol.ledger[SolOrder[i]]
             purchase == sol.ledger[SolOrder[j]]
         IN  (/\ opening.bonus
              /\ purchase.name = "buy_tickets_sol"
              /\ purchase.roundId = opening.roundId
              /\ i # j) => i < j

\* a backfill of several pages went through the opening purchase of a round
\* and a later purchase of it, and the Round holds the amounts of both
C20_Witness ==
  /\ sol.pc = "apply" /\ sol.queue = <<>> /\ sol.pages >= 2
  /\ \E i, j \in DOMAIN sol.done :
       /\ j >= i + SolanaPageLimit
       /\ sol.ledger[sol.done[i]].bonus
       /\ sol.ledger[sol.done[j]].name = "buy_tickets_sol"
       /\ sol.ledger[sol.done[j]].roundId = sol.ledger[sol.done[i]].roundId
       /\ \E round \in BagToSet(db.roundRepository) :
            /\ round.roundId = sol.ledger[sol.done[i]].roundId
            /\ round.prizeAmount >= 2

\* C26: the connection status of the chain is accurate at every moment:
\* connected is true only while the adapter is connected, and, no attempt
\* being in flight, reconnectAttempts is the number of reconnect attempts
\* that failed in a row since the last success.
C26_StatusAccurate ==
  /\ sup.connectionStates => ProviderAnswers
  /\ (\A p \in Procs : sup.rc[p].pc = "idle") =>
       sup.reconnectAttempts = sup.consecFailed

\* a step in which the timer callback got a healthy result from its probe
ProbeSucceeds ==
  /\ (ProbeHeightStep /\ sup'.probe.pc = "idle") \/ ProbeCatchUpStep
  /\ sup'.lastProbe \in {"passed", "caughtUp"}

\* C27: after a health probe succeeded, the chain's reconnect attempt counter
\* is 0.
C27_Step == ProbeSucceeds => sup'.reconnectAttempts = 0
C27_ProbeSuccessResetsCounter == [][C27_Step]_vars

\* a probe passed while a counted reconnect attempt was still cleaning up, on
\* a chain whose registration leaves the counter alone
C27_Witness ==
  /\ sup.kind = "ws" /\ ~sup.wsEvents
  /\ sup.lastProbe = "passed" /\ sup.probe.pc = "idle"
  /\ sup.reconnectAttempts = 0 /\ sup.consecFailed = 0 /\ sup.timeouts = 0
  /\ \E p \in Procs :
       /\ sup.rc[p].pc = "destroy" /\ sup.rc[p].attempt = 1
       /\ \A q \in Procs \ {p} : sup.rc[q].pc = "idle"

\* a backfill of the chain is running, started by a probe or by a listen call
BackfillRunning ==
  sup.probe.pc = "backfill" \/ \E p \in Procs : sup.rc[p].pc = "backfill"

\* C25: once cleanup() has returned, the health timer is cancelled, the
\* adapter delivers nothing, no backfill is running, and no probe starts, no
\* reconnect attempt starts and the cursor is not written.
C25_Step ==
  sup.stopped =>
    /\ ~(sup.probe.pc = "idle" /\ sup'.probe.pc = "height")
    /\ ~AttemptStarts
    /\ sup'.cursor = sup.cursor
C25_StoppedIsQuiet ==
  /\ [](sup.kind # "none" =>
          (sup.stopped => ~sup.timer /\ ListenerSets = 0 /\ ~BackfillRunning))
  /\ [][C25_Step]_vars

\* a step in which listenToEthereumEvents decides on its backfill: at start,
\* or in the reconnect that follows a failed probe
ListenDecides ==
  \/ ~started /\ started'
  \/ bf.pc = "done" /\ bf.caller = "health" /\ ~bf.result /\ bf'.caller = "listen"

\* C29: at start and on each reconnect, with the stored cursor c and the
\* current height h: without a cursor the backfill runs from the deployment
\* block to h; with c < h it covers exactly [c+1, h]; with c >= h none runs.
C29_Step ==
  ListenDecides =>
    LET c == db.blockchainSyncRepository
        h == Height
    IN  IF c = NoRecord
        THEN /\ bf'.pc = "fetch"
             /\ bf'.fromBlock = getDeploymentBlock /\ bf'.toBlock = h
        ELSE IF c < h
        THEN /\ bf'.pc = "fetch"
             /\ bf'.fromBlock = c + 1 /\ bf'.toBlock = h
        ELSE bf'.pc = "done" /\ bf'.chunks = <<>>
C29_ListenBackfillRange == [][C29_Step]_vars

\* a reconnect found a cursor below the height and its backfill of the blocks
\* after the cursor is under way
C29_Witness ==
  /\ bf.caller = "listen" /\ bf.pc = "fetch" /\ bf.chunks = <<>>
  /\ bf.fromBlock >= 2
  /\ bf.fromBlock = db.blockchainSyncRepository + 1
  /\ bf.toBlock > bf.fromBlock

\* no handler is in flight
RaceQuiescent == \A i \in Callers : hs.callers[i].pc \in {"idle", "done"}

RECURSIVE SumCounts(_)
SumCounts(S) ==
  IF S = {} THEN 0
  ELSE LET x == CHOOSE y \in S : TRUE IN x.count + SumCounts(S \ {x})

\* the persisted ticket purchases of a user in a round, and those of a round
PurchaseRows(d, u, r) ==
  {row \in BagToSet(d.ticketPurchaseRepository) : row.user = u /\ row.roundId = r}
RoundPurchaseRows(d, r) ==
  {row \in BagToSet(d.ticketPurchaseRepository) : row.roundId = r}
RoundRows(d) == BagToSet(d.roundRepository)

\* C21: the amounts of a Round never decrease, and once the handlers have
\* returned they are the sum over the persisted purchases of the round, each
\* counted once, also when purchases of the round were applied at the same time.
C21_AmountsStep ==
  \A before \in RoundRows(db) :
    \A after \in RoundRows(db') :
      after.roundId = before.roundId => after.prizeAmount >= before.prizeAmount
C21_RoundAmounts ==
  /\ [](RaceQuiescent =>
          \A round \in RoundRows(db) :
            round.prizeAmount = SumCounts(RoundPurchaseRows(db, round.roundId)))
  /\ [][C21_AmountsStep]_vars

\* C23: when two distinct purchases of the same (user, token, round) were
\* applied at the same time, both are persisted and the ticketCount of the
\* row is the sum of both counts.
C23_NoLostPurchase ==
  RaceQuiescent =>
    \A u \in Users :
      StatsField(db, u, 1, "ticketCount") = SumCounts(PurchaseRows(db, u, 1))

\* C24: the writes of one event are atomic: at no moment is a purchase row
\* persisted without its count in the buyer's statistics row, or the other
\* way round.
C24_EventWithAggregate ==
  \A e \in RaceEvents :
    Applied(db, e) <=>
      \E row \in FindStats(db, e.buyer, e.roundId) :
        row.ticketCount >= SumCounts({x \in PurchaseRows(db, e.buyer, e.roundId) :
                                        x.transactionHash <= e.transactionHash})


\* the subscription is attached while a backfill whose range holds the log's
\* block is in progress: the log reaches the applier from both
Overlapping(e) ==
  /\ listeners
  /\ bf.pc \notin {"idle", "done"}
  /\ e.blockNumber \in bf.fromBlock..bf.toBlock

\* C22: a log that the subscription and an overlapping backfill both deliver
\* leaves, at its second delivery, the event tables, the rounds and the
\* statistics as the first delivery left them.
C22_Step ==
  \A e \in LogSet :
    (Delivers(e) /\ Applied(db, e) /\ Overlapping(e)) =>
      /\ db'.ticketPurchaseRepository = db.ticketPurchaseRepository
      /\ db'.winEventRepository = db.winEventRepository
      /\ db'.firstTicketBonusRepository = db.firstTicketBonusRepository
      /\ db'.roundRepository = db.roundRepository
      /\ db'.userRoundStatsRepository = db.userRoundStatsRepository
C22_OverlapIsIdempotent == [][C22_Step]_vars


\* ---------------------------------------------------- claims of SpecChains
\* what the status query and the cursor query show of a chain
Observed(c) == <<c.connectionStates, c.reconnectAttempts, c.cursor>>

\* a chain's own listen call has settled and the chain has no health timer
\* because startListening still waits for the backfill of another chain
WaitsForOther(n, m) ==
  /\ fleet.pc = "listening"
  /\ fleet.chains[n].call = "none"
  /\ ~fleet.chains[n].timer
  /\ fleet.chains[m].call = "backfill"

\* C28: no step changes the connection state, attempt counter or cursor of
\* two chains, and no chain whose own listen call has settled is left without
\* health supervision while another chain's backfill is still going on.
C28_FrameStep ==
  \A n, m \in ChainNames :
    (n # m /\ Observed(fleet'.chains[n]) # Observed(fleet.chains[n])) =>
      Observed(fleet'.chains[m]) = Observed(fleet.chains[m])
C28_ChainsIndependent ==
  /\ [](\A n, m \in ChainNames : n # m => ~WaitsForOther(n, m))
  /\ [][C28_FrameStep]_vars


\* ------------------------------------------------- claims on notifications
\* the buyers of the round's tickets on the chain the service ingests
FullPlayers(r) ==
  IF sol.pc = "none" THEN RoundPlayers(r) ELSE SolPlayers(sol.ledger, r)

\* the calls of the notification service made for a WinEvent row
CallsFor(w) ==
  [c \in {x \in BagToSet(db.winNotifications) :
            x.transactionHash = w.transactionHash /\ x.logIndex = w.logIndex}
     |-> db.winNotifications[c]]

\* C30: every stored WinEvent has exactly one call of the notification
\* service, made with its winner and with all players of its round.
C30_NotifiedOnceWithAllPlayers ==
  \A w \in BagToSet(db.winEventRepository) :
    /\ BagCardinality(CallsFor(w)) = 1
    /\ \A c \in BagToSet(CallsFor(w)) :
         c.winner = w.user /\ c.players = FullPlayers(w.roundId)


\* ---------------------------------------------------- claims of SpecRaffle
\* the step is a call of the given function that did not revert
Succeeds(op) ==
  raffle' # raffle /\ raffle'.last.op = op /\ raffle'.last.reverted = "no"

BonusTickets(round) == {i \in DOMAIN round.tickets : round.tickets[i].isBonus}
OwnedTickets(round, u) == {i \in DOMAIN round.tickets : round.tickets[i].owner = u}
TicketsBefore(id) ==
  IF id + 1 \in DOMAIN raffle.rounds THEN Len(raffle.rounds[id + 1].tickets) ELSE 0

\* C33: every round holds exactly one bonus ticket, owned by the round's first
\* buyer, who alone has hasBonusTicket; a player's ticketsCount is the number
\* of tickets the player owns.  The first purchase of n tickets leaves n + 1
\* tickets and emits FirstTicketBonusAwarded; a later purchase of n tickets
\* adds n tickets and does not emit it.
C33_RoundState ==
  \A k \in DOMAIN raffle.rounds :
    LET round == raffle.rounds[k]
        first == round.tickets[1].owner
    IN  /\ Cardinality(BonusTickets(round)) = 1
        /\ \A i \in BonusTickets(round) : round.tickets[i].owner = first
        /\ \A u \in Users :
             /\ round.roundPlayers[u].hasBonusTicket <=> u = first
             /\ round.roundPlayers[u].ticketsCount = Cardinality(OwnedTickets(round, u))
C33_Step ==
  Succeeds("buyTicket") =>
    LET call == raffle'.last
        before == TicketsBefore(call.roundId)
        round == raffle'.rounds[call.roundId + 1]
        emitted == \E i \in DOMAIN call.events : call.events[i] = "FirstTicketBonusAwarded"
    IN  IF before = 0
        THEN /\ emitted
             /\ Len(round.tickets) = call.count + 1
             /\ round.roundPlayers[call.sender] =
                  [ticketsCount |-> call.count + 1, hasBonusTicket |-> TRUE]
        ELSE /\ ~emitted
             /\ Len(round.tickets) = before + call.count
C33_OneBonusPerRound == []C33_RoundState /\ [][C33_Step]_vars

\* a round has two buyers, the second one without a bonus ticket
C33_Witness ==
  \E k \in DOMAIN raffle.rounds :
    /\ Len(raffle.rounds[k].players) = 2
    /\ raffle.last.op = "buyTicket" /\ raffle.last.reverted = "no"
    /\ ~raffle.rounds[k].roundPlayers[raffle.last.sender].hasBonusTicket

\* the latest round of the token takes no purchase any more
LatestIsOver(c) ==
  /\ Len(c.rounds) > 0
  /\ \/ c.rounds[Len(c.rounds)].status # Open
     \/ c.rounds[Len(c.rounds)].endTime <= c.now

\* C34: a buyTicket call made when the latest round takes no purchase any
\* more does not revert; it opens a new round, the round count growing by one.
C34_Step ==
  ( /\ raffle' # raffle
    /\ raffle'.last.op = "buyTicket"
    /\ raffle'.last.reverted # "InvalidTicketCount"
    /\ LatestIsOver(raffle) ) =>
      /\ raffle'.last.reverted = "no"
      /\ Len(raffle'.rounds) = Len(raffle.rounds) + 1
      /\ raffle'.rounds[Len(raffle'.rounds)].status = Open
C34_NewRoundAfterOldOne == [][C34_Step]_vars

\* the active rounds that are Open with the given relation of end time to now
OpenExpired(c) ==
  {i \in DOMAIN c.activeRounds :
     /\ c.rounds[c.activeRounds[i].roundId + 1].status = Open
     /\ c.rounds[c.activeRounds[i].roundId + 1].endTime < c.now}
OpenAtEnd(c) ==
  {i \in DOMAIN c.activeRounds :
     /\ c.rounds[c.activeRounds[i].roundId + 1].status = Open
     /\ c.rounds[c.activeRounds[i].roundId + 1].endTime = c.now}

Delivered(c) == c.last.op = "fulfillRandomWords" /\ c.last.reverted = "no"
TicketOwners(round) == {round.tickets[i].owner : i \in DOMAIN round.tickets}

ActiveIds(c) == {c.activeRounds[i].roundId : i \in DOMAIN c.activeRounds}

\* C40: a round's status stays or moves one step forward along NonExistent,
\* Open, Closed, Completed; a Completed round is never written again; the
\* active-rounds list holds, once each, the rounds that are Open or Closed.
C40_ActiveIffOpenOrClosed ==
  /\ \A k \in DOMAIN raffle.rounds :
       (k - 1 \in ActiveIds(raffle)) <=> raffle.rounds[k].status \in {Open, Closed}
  /\ Cardinality(ActiveIds(raffle)) = Len(raffle.activeRounds)
C40_Step ==
  raffle.deployed =>
    /\ \A k \in DOMAIN raffle.rounds :
         /\ k \in DOMAIN raffle'.rounds
         /\ raffle'.rounds[k].status \in
              {raffle.rounds[k].status, raffle.rounds[k].status + 1}
         /\ raffle.rounds[k].status = Completed => raffle'.rounds[k] = raffle.rounds[k]
    /\ \A k \in DOMAIN raffle'.rounds \ DOMAIN raffle.rounds :
         raffle'.rounds[k].status = Open
C40_StatusMovesForward == []C40_ActiveIffOpenOrClosed /\ [][C40_Step]_vars

\* a second answer of the coordinator for a Completed round was rejected
C40_Witness ==
  /\ raffle.last.op = "fulfillRandomWords"
  /\ raffle.last.reverted = "completed"
  /\ raffle.rounds[raffle.last.roundId + 1].status = Completed

\* ---------------------------------------------------- claims of SpecInstr
\* run r works on the instruction it is at
Applies(r) ==
  /\ instr.pc = "on"
  /\ instr.runs[r].pc = "apply"
  /\ instr.runs[r].queue # <<>>
  /\ instr'.ledger = instr.ledger
  /\ instr'.runs[r] # instr.runs[r]
IxCurrentTx(r) == instr.ledger[Head(instr.runs[r].queue)]
IxCurrentName(r) == IxCurrentTx(r).instructions[instr.runs[r].ix + 1]

\* the TicketPurchased events of a transaction, in the order of its
\* instructions
PurchaseEvents(tx) == SelectSeq(tx.events, LAMBDA e : e.name = "TicketPurchased")
RowsOfTx(tx) ==
  {row \in BagToSet(db.ticketPurchaseRepository) : row.transactionHash = tx.signature}
\* every purchase instruction of the transaction has its row
FullyStored(tx) ==
  \A j \in 1..Len(tx.instructions) : \E row \in RowsOfTx(tx) : row.logIndex = j - 1
\* the tickets the ledger's events give user u in round r
IxBought(l, u, r) ==
  SumCounts({[tx |-> i, at |-> j, count |-> l[i].events[j].count] :
               <<i, j>> \in {p \in (DOMAIN l) \X (1..(MaxInstr + 1)) :
                               /\ p[2] \in DOMAIN l[p[1]].events
                               /\ l[p[1]].events[p[2]].name = "TicketPurchased"
                               /\ l[p[1]].events[p[2]].user = u
                               /\ l[p[1]].events[p[2]].roundId = r}})
IxStatsCount(u, r) ==
  LET found == FindStats(db, u, r)
  IN  IF found = {} THEN 0 ELSE (CHOOSE row \in found : TRUE).ticketCount

\* C39: once the k purchase instructions of a transaction have their rows,
\* the row of the j-th instruction carries the buyer and the count of the
\* j-th TicketPurchased event of the transaction; and once, without a
\* persistence error, all purchases of a round are stored, the statistics of
\* every user in the round count the sum of the user's events.
C39_RowPerInstructionEvent ==
  instr.pc = "on" =>
    /\ \A i \in DOMAIN instr.ledger :
         LET tx == instr.ledger[i]
             events == PurchaseEvents(tx)
         IN  (tx.instructions[1] = "buy_tickets_sol" /\ FullyStored(tx)) =>
               \A j \in DOMAIN events :
                 \E row \in RowsOfTx(tx) :
                   /\ row.logIndex = j - 1
                   /\ row.user = events[j].user
                   /\ row.count = events[j].count
    /\ \A r \in 1..MaxIxRounds :
         ( /\ failures = 0
           /\ \A i \in DOMAIN instr.ledger :
                instr.ledger[i].instructions[1] = "buy_tickets_sol"
                  => FullyStored(instr.ledger[i]) )
         => \A u \in Users : IxStatsCount(u, r) = IxBought(instr.ledger, u, r)

\* C31: the trigger service is called at most once for a transaction that
\* logs AllRequestsCompleted, however often the transaction is delivered,
\* and is called when a run that is not the first, historical one works
\* through the transaction's request_randomness instruction without an error.
C31_AtMostOnce ==
  instr.pc = "on" =>
    \A sig \in DOMAIN instr.ledger : CopiesIn(sig, instr.cron) <= 1
C31_Step ==
  \A r \in Runs :
    ( /\ Applies(r)
      /\ IxCurrentName(r) = "request_randomness"
      /\ ~instr.runs[r].isHistorical
      /\ failures' = failures )
    => CopiesIn(IxCurrentTx(r).signature, instr'.cron) >= 1
C31_TriggerOncePerSignal == []C31_AtMostOnce /\ [][C31_Step]_vars

\* C38: when a run has worked through a claim_prize_sol instruction without
\* an error, a Round of the event's round_id has prizeClaimed = true and the
\* rows of the other rounds are as before; no step takes a claimed Round
\* back.
C38_Step ==
  /\ \A r \in Runs :
       ( /\ Applies(r)
         /\ IxCurrentName(r) = "claim_prize_sol"
         /\ failures' = failures )
       => LET claimed == CHOOSE e \in Find(IxCurrentTx(r).events, "PrizeClaimed") : TRUE
          IN  /\ \E round \in BagToSet(db'.roundRepository) :
                   round.roundId = claimed.roundId /\ round.prizeClaimed
              /\ \A round \in BagToSet(db.roundRepository) \cup BagToSet(db'.roundRepository) :
                   round.roundId # claimed.roundId =>
                     CopiesIn(round, db'.roundRepository) = CopiesIn(round, db.roundRepository)
  /\ instr.pc = "on" =>
       \A r \in 1..MaxIxRounds :
         (\E round \in BagToSet(db.roundRepository) : round.roundId = r /\ round.prizeClaimed)
         => (\E round \in BagToSet(db'.roundRepository) : round.roundId = r /\ round.prizeClaimed)
C38_ClaimSetsFlag == [][C38_Step]_vars

\* ---------------------------------------------------- claims of SpecTicks
\* callback i is in checkConnectionHealth, or in the reconnect it started
Probing(i) == ticks.callbacks[i].pc \in {"height", "backfill"}
Busy(i) == ticks.callbacks[i].pc # "idle"

\* C37: of a chain's timer callbacks at most one is in its probe or the
\* catch-up the probe awaits, and no callback starts while another is in
\* its probe, its catch-up or its reconnect.
C37_OneProbe ==
  ticks.pc = "on" => \A i, j \in Ticks : (Probing(i) /\ Probing(j)) => i = j
C37_Step ==
  \A i \in Ticks :
    (ticks.pc = "on" /\ ~Busy(i) /\ ticks'.callbacks[i].pc = "height")
      => \A j \in Ticks : ~Busy(j)
C37_NoSecondProbe == []C37_OneProbe /\ [][C37_Step]_vars

\* callback i leaves its height request, which the provider answered
TkHeightAnswered(i) ==
  /\ ticks.pc = "on"
  /\ ticks.callbacks[i].pc = "height"
  /\ ticks'.callbacks[i].pc # "height"
  /\ ticks.up
  /\ ticks.cursor # NoRecord

\* C32: on a chain of any type, a probe whose height request is answered
\* starts a catch-up exactly when the height is more than the configured
\* threshold ahead of the stored cursor.
C32_Step ==
  \A i \in Ticks :
    TkHeightAnswered(i) =>
      (ticks'.callbacks[i].pc = "backfill"
         <=> ticks.height - ticks.cursor > syncThresholdBlocks)
C32_OneThreshold == [][C32_Step]_vars

\* C32 as amended: the configured threshold is the bound on a WebSocket EVM
\* chain, ten times the configured threshold is the bound on the non-EVM
\* chain, and the probe of an HTTP EVM chain starts no catch-up.
C32_AmendedStep ==
  \A i \in Ticks :
    TkHeightAnswered(i) =>
      (ticks'.callbacks[i].pc = "backfill"
         <=> CASE ticks.kind = "ws" ->
                    ticks.height - ticks.cursor > syncThresholdBlocks
               [] ticks.kind = "solana" ->
                    ticks.height - ticks.cursor > solanaThresholdFactor * syncThresholdBlocks
               [] OTHER -> FALSE)
C32_ThresholdByChainType == [][C32_AmendedStep]_vars

\* the probe of the non-EVM chain started a catch-up over more than ten
\* times the configured threshold
C32_Witness ==
  /\ ticks.pc = "on"
  /\ ticks.kind = "solana"
  /\ \E i \in Ticks :
       /\ ticks.callbacks[i].pc = "backfill"
       /\ ticks.callbacks[i].toBlock - ticks.callbacks[i].fromBlock + 1
            > solanaThresholdFactor * syncThresholdBlocks

====
